---- MODULE Spec2Model ----
(***************************************************************************)
(* Model of the shielded-account operation client, TongoService            *)
(* (src/src/tongo-service.ts): address padding, the four operations        *)
(* fund / transfer / rollover / withdraw with their collaborator calls,    *)
(* the approve-calldata patch, the wallet-balance read and refreshState.   *)
(*                                                                         *)
(* Representation.  A JavaScript string is a sequence of one-character     *)
(* strings.  A bigint that is an address (BigInt(hex), toString(16),       *)
(* toString()) is an integer; the addresses drawn have few significant     *)
(* digits and many leading zeros, which is the case the padding is about.  *)
(* A bigint that is an amount is a sign and a sequence of decimal digits,  *)
(* so that amounts beyond 2^31-1 (the proof limit, 10^15, 100*10^18) are   *)
(* computed exactly.  An error message is a sequence of fragments; the     *)
(* words the catch blocks search for are fragments of their own, and       *)
(* String.prototype.includes is membership of such a fragment.             *)
(***************************************************************************)
EXTENDS Integers, Sequences, FiniteSets, TLC

(***************************************************************************)
(* Strings                                                                 *)
(***************************************************************************)
HexLower == <<"0","1","2","3","4","5","6","7","8","9","a","b","c","d","e","f">>
HexUpper == <<"0","1","2","3","4","5","6","7","8","9","A","B","C","D","E","F">>
DecChars == <<"0","1","2","3","4","5","6","7","8","9">>

Rep(c, n) == [i \in 1..n |-> c]

\* String.prototype.toLowerCase, on the alphabet of the model
LowerChar(c) ==
  IF \E i \in 11..16 : HexUpper[i] = c
    THEN HexLower[CHOOSE i \in 11..16 : HexUpper[i] = c]
    ELSE IF c = "X" THEN "x" ELSE c

toLowerCase(s) == [i \in 1..Len(s) |-> LowerChar(s[i])]

\* s.startsWith('0x')
startsWith0x(s) == Len(s) >= 2 /\ s[1] = "0" /\ s[2] = "x"

\* s.slice(n)
slice(s, n) == SubSeq(s, n + 1, Len(s))

\* s.padStart(n, c)
padStart(s, n, c) == IF Len(s) >= n THEN s ELSE Rep(c, n - Len(s)) \o s

\* width of the hex payload of a padded address
AddressHexLength == 64

\* padAddress without the startsWith test: 0x is put in front of every address
padAddress_alwaysPrefixed(address) ==
  IF address = <<>> THEN address
  ELSE <<"0","x">> \o padStart(address, AddressHexLength, "0")

\* padAddress: 0x + the payload left-padded with zeros to 64 characters
padAddress(address) ==
  IF address = <<>> THEN address
  ELSE LET a == IF startsWith0x(address) THEN address ELSE <<"0","x">> \o address
       IN  <<"0","x">> \o padStart(slice(a, 2), AddressHexLength, "0")

(***************************************************************************)
(* BigInt on addresses: BigInt(value), toString(16), toString()            *)
(***************************************************************************)
IsHexChar(c) == \E i \in 1..16 : HexLower[i] = c \/ HexUpper[i] = c
IsDecChar(c) == \E i \in 1..10 : DecChars[i] = c
HexCharVal(c) == (CHOOSE i \in 1..16 : HexLower[i] = c \/ HexUpper[i] = c) - 1
DecCharVal(c) == (CHOOSE i \in 1..10 : DecChars[i] = c) - 1

HasHexPrefix(s) == Len(s) >= 2 /\ s[1] = "0" /\ (s[2] = "x" \/ s[2] = "X")

\* whether BigInt(s) of a string parses (otherwise it throws a SyntaxError)
BigIntParses(s) ==
  IF HasHexPrefix(s)
    THEN Len(s) > 2 /\ \A i \in 3..Len(s) : IsHexChar(s[i])
    ELSE \A i \in 1..Len(s) : IsDecChar(s[i])

\* a digit string without its leading zeros; one digit is always kept
stripZeros(h) ==
  LET kept == { i \in 1..Len(h) : h[i] # "0" \/ i = Len(h) }
  IN  IF h = <<>> THEN h
      ELSE SubSeq(h, CHOOSE i \in kept : \A j \in kept : i <= j, Len(h))

RECURSIVE DigitsVal(_, _, _)
DigitsVal(s, base, acc) ==
  IF s = <<>> THEN acc
  ELSE DigitsVal(Tail(s), base,
                 acc * base + (IF base = 16 THEN HexCharVal(Head(s)) ELSE DecCharVal(Head(s))))

\* BigInt(s) of a string that parses
BigIntOfString(s) ==
  IF HasHexPrefix(s) THEN DigitsVal(stripZeros(slice(s, 2)), 16, 0)
  ELSE DigitsVal(stripZeros(s), 10, 0)

RECURSIVE ToBase(_, _)
ToBase(n, base) ==
  LET d == IF base = 16 THEN HexLower[(n % base) + 1] ELSE DecChars[(n % base) + 1]
  IN  IF n < base THEN <<d>> ELSE ToBase(n \div base, base) \o <<d>>

\* n.toString(16) and n.toString() of a non-negative bigint
toString16(n) == ToBase(n, 16)
toString10(n) == ToBase(n, 10)

(***************************************************************************)
(* BigInt on amounts: sign and decimal digits, most significant first      *)
(***************************************************************************)
RECURSIVE NatDigits(_)
NatDigits(n) == IF n < 10 THEN <<n>> ELSE NatDigits(n \div 10) \o <<n % 10>>

Big(n) == [neg |-> n < 0, mag |-> NatDigits(IF n < 0 THEN 0 - n ELSE n)]
BigZero == Big(0)
\* d * 10^k for a positive digit prefix d
BigE(n, k) == [neg |-> FALSE, mag |-> NatDigits(n) \o Rep(0, k)]

\* comparison of two magnitudes without leading zeros
MagLess(a, b) ==
  IF Len(a) # Len(b) THEN Len(a) < Len(b)
  ELSE \E i \in 1..Len(a) : a[i] < b[i] /\ \A j \in 1..(i - 1) : a[j] = b[j]

\* a < b
BigLess(a, b) ==
  IF a.neg /\ ~b.neg THEN TRUE
  ELSE IF ~a.neg /\ b.neg THEN FALSE
  ELSE IF a.neg THEN MagLess(b.mag, a.mag)
  ELSE MagLess(a.mag, b.mag)

BigLeq(a, b) == a = b \/ BigLess(a, b)

\* a / 10^k, truncating, for a >= 0
BigDivPow10(a, k) ==
  IF Len(a.mag) <= k THEN BigZero
  ELSE [neg |-> FALSE, mag |-> SubSeq(a.mag, 1, Len(a.mag) - k)]

\* a * 10^k, for a >= 0
BigMulPow10(a, k) ==
  IF a = BigZero THEN BigZero ELSE [neg |-> a.neg, mag |-> a.mag \o Rep(0, k)]

\* the mainnet USDC token address the service compares strkAddress with
MAINNET_USDC ==
  <<"0","x","0","5","3","c","9","1","2","5","3","b","c","9","6","8","2",
    "c","0","4","9","2","9","c","a","0","2","e","d","0","0","b","3","e",
    "4","2","3","f","6","7","1","0","d","2","e","e","7","e","0","d","5",
    "e","b","b","0","6","f","3","e","c","f","3","6","8","a","8">>

\* the Sepolia STRK token address of the network table
SEPOLIA_STRK ==
  <<"0","x","0","4","7","1","8","f","5","a","0","f","c","3","4","c","c",
    "1","a","f","1","6","a","1","c","d","e","e","9","8","f","f","b","2",
    "0","c","3","1","f","5","c","d","6","1","d","6","a","b","0","7","2",
    "0","1","8","5","8","f","4","2","8","7","c","9","3","8","d">>

\* low + (high << 128n) needs addition and multiplication on digit sequences
\* the i-th least significant digit of a magnitude
digitAt(m, i) == IF i <= Len(m) THEN m[Len(m) + 1 - i] ELSE 0

\* whether the addition of two magnitudes carries into the i-th digit
carryInto(a, b, i) ==
  \E j \in 1..(i - 1) :
    /\ digitAt(a, j) + digitAt(b, j) >= 10
    /\ \A k \in (j + 1)..(i - 1) : digitAt(a, k) + digitAt(b, k) = 9

\* a + b, for a, b >= 0
BigAdd(a, b) ==
  LET n == (IF Len(a.mag) > Len(b.mag) THEN Len(a.mag) ELSE Len(b.mag)) + 1
      sum == [i \in 1..n |->
                (digitAt(a.mag, n + 1 - i) + digitAt(b.mag, n + 1 - i)
                 + (IF carryInto(a.mag, b.mag, n + 1 - i) THEN 1 ELSE 0)) % 10]
  IN  [neg |-> FALSE, mag |-> IF sum[1] = 0 THEN Tail(sum) ELSE sum]

\* b * d for a digit d, b >= 0
RECURSIVE TimesDigit(_, _)
TimesDigit(b, d) == IF d = 0 THEN BigZero ELSE BigAdd(TimesDigit(b, d - 1), b)

\* the first i digits of a, times b
RECURSIVE MulFrom(_, _, _)
MulFrom(a, b, i) ==
  IF i = 0 THEN BigZero
  ELSE BigAdd(BigMulPow10(MulFrom(a, b, i - 1), 1), TimesDigit(b, a.mag[i]))

\* a * b, for a, b >= 0
BigMul(a, b) == MulFrom(a, b, Len(a.mag))

\* 2^128 = 340282366920938463463374607431768211456
TwoPow128 ==
  [neg |-> FALSE,
   mag |-> <<3,4,0,2,8,2,3,6,6,9,2,0,9,3,8,4,6,3,4,6,3,3,7,4,6,0,7,4,3,1,7,6,8,2,1,1,4,5,6>>]

\* a << 128n, for a >= 0
BigShl128(a) == BigMul(a, TwoPow128)

(***************************************************************************)
(* Errors                                                                  *)
(***************************************************************************)
Txt(s) == [txt |-> s]
Val(v) == [val |-> v]

\* new Error(message)
Error(message) == [isError |-> TRUE, message |-> message]
\* a thrown value that is no Error instance; String(value) is its text
NonError(text) == [isError |-> FALSE, message |-> text]

\* error instanceof Error ? error.message : 'Unknown error'
messageOrUnknown(error) ==
  IF error.isError THEN error.message ELSE <<Txt("Unknown error")>>

\* error instanceof Error ? error.message : String(error)
messageOrString(error) == error.message

\* message.includes(word)
includes(message, word) == \E i \in 1..Len(message) : message[i] = Txt(word)

\* whether `part` occurs in `message` as a contiguous run of fragments
Contains(message, part) ==
  \E i \in 0..(Len(message) - Len(part)) :
    SubSeq(message, i + 1, i + Len(part)) = part

\* what a collaborator (SDK, RPC provider, account) may throw
Throwables ==
  { Error(<<Txt("RPC request timed out")>>),
    Error(<<Txt("Contract error: "), Txt("NotOwner")>>),
    Error(<<Txt("Insufficient balance"), Txt(" for "), Txt("fee")>>),
    NonError(<<Txt("user rejected the request")>>) }

(***************************************************************************)
(* The service                                                             *)
(***************************************************************************)
VARIABLES
  starknetAddress,       \* this.starknetAddress, padded by the constructor
  starknetAccount,       \* this.starknetAccount, the executor: [address]
  tongoContractAddress,  \* this.tongoContractAddress, padded by the constructor
  strkAddress,           \* this.strkAddress
  state,                 \* this.state: currentBalance, pendingBalance, nonce
  snapshot,              \* the object an earlier getState() gave the caller
  pc,                    \* the await at which the call in progress is suspended
  frame,                 \* arguments and locals of the call in progress
  trace,                 \* the collaborator calls of the current (or last) call
  outcome                \* how the current (or last) call ended

vars == <<starknetAddress, starknetAccount, tongoContractAddress, strkAddress,
          state, snapshot, pc, frame, trace, outcome>>

config == <<starknetAddress, starknetAccount, tongoContractAddress, strkAddress>>

\* account addresses a wallet or a configuration file may hold: the same
\* address in several spellings, and another address
AccountAddresses ==
  { <<"0","x","1","a">>,
    <<"0","x","0","1","A">>,
    <<"1","a">>,
    <<"0","x","1","a","0">> }

\* the owner address the service is constructed with
OwnerAddresses == { <<"0","x","1","a">> }

\* the networks: the Tongo contract address (with leading zeros, or without
\* them and in upper case) and the token address
NETWORKS ==
  { [tongoContractAddress |-> <<"0","x","0","0","b","4">>, strkAddress |-> SEPOLIA_STRK],
    [tongoContractAddress |-> <<"0","x","7","C">>, strkAddress |-> MAINNET_USDC] }

isMainnet == toLowerCase(strkAddress) = MAINNET_USDC
tokenName == IF isMainnet THEN "USDC" ELSE "STRK"
\* the decimals of the two tokens exchanged
tokenDecimals_swapped == IF isMainnet THEN 18 ELSE 6
tokenDecimals == IF isMainnet THEN 6 ELSE 18

\* a collaborator call, and how it settled
Call(name, arg) == [call |-> name, arg |-> arg, result |-> "pending"]
settle(t, settled) ==
  [t EXCEPT ![Len(t)].result = IF settled.k = "throws" THEN "rejected" ELSE "resolved"]

\* the call suspends at an await / ends with an exception / ends with a value
Idle == <<"none", "idle">>
Await(f, t, where) ==
  frame' = f /\ trace' = t /\ outcome' = [kind |-> "pending"] /\ pc' = where
Settled == <<"none", "settled">>
Fail(f, t, error, cause) ==
  /\ frame' = f /\ trace' = t /\ pc' = Settled
  /\ outcome' = [kind |-> "threw", error |-> error, cause |-> cause]
Done(f, t, tx) ==
  frame' = f /\ trace' = t /\ pc' = Settled /\ outcome' = [kind |-> "returned", tx |-> tx]

\* what an awaited collaborator call resolves to
Resolved(v) == [k |-> "value", v |-> v]
Rejected(e) == [k |-> "throws", e |-> e]
Rejections == { Rejected(e) : e \in Throwables }

(***************************************************************************)
(* refreshState                                                            *)
(***************************************************************************)
Absent == [k |-> "absent"]
Null == [k |-> "null"]
BigintField(n) == [k |-> "bigint", v |-> Big(n)]
NumberField(n) == [k |-> "number", v |-> n]
\* a value BigInt(String(value)) cannot convert
Junk == [k |-> "junk"]

AccountState(b, p, n) == [k |-> "object", balance |-> b, pending |-> p, nonce |-> n]

\* largest ledger amount and nonce drawn for an account projection
MaxLedgerAmount == 5
MaxNonce == 1

\* what tongoAccount.state() may resolve to
AccountStates ==
  { AccountState(BigintField(0), BigintField(MaxLedgerAmount), NumberField(1)),
    AccountState(BigintField(MaxLedgerAmount), BigintField(0), NumberField(MaxNonce)) }
  \cup { AccountState(Absent, Null, Absent),
         AccountState(BigintField(MaxLedgerAmount), Junk, NumberField(MaxNonce)),
         AccountState(Junk, BigintField(MaxLedgerAmount), Junk),
         Null }

SyntaxError(what) == Error(<<Txt("Cannot convert "), Txt(what), Txt(" to a BigInt")>>)

\* the try block of refreshState on the resolved account state: the fields
\* are written one after the other, and a conversion that throws leaves the
\* fields written before it in place
refreshFields(st, accountState) ==
  LET has(f) == accountState.k = "object" /\ accountState[f].k # "absent"
      scaled(v) == BigMulPow10(v, tokenDecimals)
      s1 == IF has("balance") /\ accountState.balance.k # "null"
              THEN [st EXCEPT !.currentBalance = scaled(accountState.balance.v)]
              ELSE [st EXCEPT !.currentBalance = BigZero]
      s2 == IF has("pending") /\ accountState.pending.k # "null"
              THEN [s1 EXCEPT !.pendingBalance = scaled(accountState.pending.v)]
              ELSE [s1 EXCEPT !.pendingBalance = BigZero]
      s3 == IF has("nonce") /\ accountState.nonce.k # "null"
              THEN [s2 EXCEPT !.nonce = IF accountState.nonce.k = "number"
                                          THEN accountState.nonce.v ELSE "NaN"]
              ELSE s2
  IN  IF has("balance") /\ accountState.balance.k = "junk"
        THEN [threw |-> TRUE, state |-> st, error |-> SyntaxError("balance")]
      ELSE IF has("pending") /\ accountState.pending.k = "junk"
        THEN [threw |-> TRUE, state |-> s1, error |-> SyntaxError("pending")]
      ELSE [threw |-> FALSE, state |-> s3]

\* a refreshState that clears the cached state when the query fails
refreshStateResult_cleared(st, settled) ==
  LET wrap(e) == Error(<<Txt("Failed to refresh account state: ")>> \o messageOrString(e))
      cleared == [st EXCEPT !.currentBalance = BigZero, !.pendingBalance = BigZero, !.nonce = 0]
  IN  IF settled.k = "throws"
        THEN [threw |-> TRUE, state |-> cleared, error |-> wrap(settled.e), cause |-> settled.e]
      ELSE LET r == refreshFields(st, settled.v)
           IN  IF r.threw
                 THEN [threw |-> TRUE, state |-> r.state, error |-> wrap(r.error),
                       cause |-> r.error]
                 ELSE [threw |-> FALSE, state |-> r.state]

\* refreshState once tongoAccount.state() has settled: the new cached state
\* and, when it throws, the error of its catch block
refreshStateResult(st, settled) ==
  LET wrap(e) == Error(<<Txt("Failed to refresh account state: ")>> \o messageOrString(e))
  IN  IF settled.k = "throws"
        THEN [threw |-> TRUE, state |-> st, error |-> wrap(settled.e), cause |-> settled.e]
      ELSE LET r == refreshFields(st, settled.v)
           IN  IF r.threw
                 THEN [threw |-> TRUE, state |-> r.state, error |-> wrap(r.error),
                       cause |-> r.error]
                 ELSE [threw |-> FALSE, state |-> r.state]

(***************************************************************************)
(* The constructor                                                         *)
(***************************************************************************)
\* BigInt('3618502788666131213697322783095070105526743751716087489154079457884512865583'),
\* the order of the Stark curve, written in hex:
\* 0x800000000000010ffffffffffffffffb781126dcae7b2321e66a241adc64d2f
starkCurveOrderHex ==
  <<"8","0","0","0","0","0","0","0","0","0","0","0","0","1","0","f",
    "f","f","f","f","f","f","f","f","f","f","f","f","f","f","f","b",
    "7","8","1","1","2","6","d","c","a","e","7","b","2","3","2","1",
    "e","6","6","a","2","4","1","a","d","c","6","4","d","2","f">>

\* a bigint of the size of a key is the sequence of its hex digit values,
\* most significant first, without leading zeros
hexDigits(h) == [i \in 1..Len(stripZeros(h)) |-> HexCharVal(stripZeros(h)[i])]
starkCurveOrder == hexDigits(starkCurveOrderHex)

\* BigInt(key) of a key that starts with 0x and parses
keyBigInt(key) == hexDigits(slice(key, 2))

\* '0x' and 64 zeros, the key the constructor takes for a missing one
ZeroKey == <<"0","x">> \o Rep("0", 64)

\* !key || key === '0x0000000000000000000000000000000000000000000000000000000000000000'
keyMissing(key) == key = <<>> \/ key = ZeroKey

\* keyBigInt < 1n
keyTooSmall(n) == MagLess(n, <<1>>)

\* a range check that lets the curve order itself through
keyOutOfRange_strict(n) == MagLess(starkCurveOrder, n)

\* keyBigInt >= starkCurveOrder
keyOutOfRange(n) == ~MagLess(n, starkCurveOrder)

\* a validation that looks at the prefix only
isValidTongoPrivateKey_prefixOnly(key) == key # <<>> /\ startsWith0x(key)

\* isValidTongoPrivateKey(key); a key BigInt(key) cannot parse is not valid
isValidTongoPrivateKey(key) ==
  /\ key # <<>>
  /\ startsWith0x(key)
  /\ BigIntParses(key)
  /\ ~keyTooSmall(keyBigInt(key))
  /\ ~keyOutOfRange(keyBigInt(key))

keyRequiredError ==
  Error(<<Txt("Tongo private key is required. In browser, pass it as tongoPrivateKeyOverride parameter.")>>)
invalidKeyError ==
  Error(<<Txt("Invalid Tongo private key. "),
          Txt("The key must be a valid scalar on the Stark curve. "),
          Txt("Generate a new one: node -e \"console.log('0x' + require('crypto').randomBytes(32).toString('hex'))\"")>>)
accountInitError(e) ==
  Error(<<Txt("Failed to initialize Tongo account: ")>> \o messageOrString(e)
        \o <<Txt(". Make sure your Tongo private key is valid.")>>)

\* the error the key checks of the constructor throw for a key, Null for none
constructorKeyError(key) ==
  IF keyMissing(key) THEN keyRequiredError
  ELSE IF ~isValidTongoPrivateKey(key) THEN invalidKeyError
  ELSE Null

\* keys the application may pass (tongoPrivateKeyOverride, or '' for none in
\* the browser): no key, the all-zero key, 0, 1 (short and padded), the
\* curve order less one, the curve order (short and padded), 2^256 - 1, a
\* key without prefix, a key that is no hex number
TongoPrivateKeys ==
  { <<>>,
    ZeroKey,
    <<"0","x","0">>,
    <<"0","x","1">>,
    <<"0","x">> \o Rep("0", 63) \o <<"1">>,
    <<"0","x">> \o SubSeq(starkCurveOrderHex, 1, 62) \o <<"e">>,
    <<"0","x">> \o starkCurveOrderHex,
    <<"0","x","0">> \o starkCurveOrderHex,
    <<"0","x">> \o Rep("f", 64),
    <<"1","a">>,
    <<"0","x","z","z">> }

\* what this.tongoAccount.publicKey may be: a string, or a point {x, y}
StringKey(str) == [t |-> "string", s |-> str]
PointKey(x, y) == [t |-> "object", x |-> x, y |-> y]
PublicKeys ==
  { PointKey(7, 171),
    StringKey(<<"0","x">> \o Rep("0", 63) \o <<"7">> \o Rep("0", 62) \o <<"a","b">>) }

\* width of a coordinate in the hex form of the public key: padStart(64, '0')
PublicKeyHexLength == 64

\* 0x${xHex}${yHex} without the padStart of the two coordinates
pointHex_unpadded(xHex, yHex) == <<"0","x">> \o xHex \o yHex

\* `0x${xHex}${yHex}` of xValue.toString(16) and yValue.toString(16), each
\* padded with padStart(64, '0')
pointHex(xHex, yHex) ==
  <<"0","x">> \o padStart(xHex, PublicKeyHexLength, "0")
              \o padStart(yHex, PublicKeyHexLength, "0")

\* publicKeyStr: the string itself, or 0x<x64hex><y64hex> of a point
publicKeyStr(pk) ==
  IF pk.t = "string" THEN pk.s
  ELSE pointHex(toString16(pk.x), toString16(pk.y))

\* a cached state whose nonce starts at 1
initialState_nonceOne(publicKey, owner) ==
  [tongoPublicKey |-> publicKey, starknetAddress |-> owner,
   currentBalance |-> BigZero, pendingBalance |-> BigZero, nonce |-> 1]

\* this.state = { tongoPublicKey, starknetAddress, currentBalance: 0n, pendingBalance: 0n, nonce: 0 }
initialState(publicKey, owner) ==
  [tongoPublicKey |-> publicKey, starknetAddress |-> owner,
   currentBalance |-> BigZero, pendingBalance |-> BigZero, nonce |-> 0]

\* the caller holds no object returned by getState
NoSnapshot == [k |-> "none"]

\* the constructor throws: this.state has not been assigned
constructorThrew(calls, error, cause) ==
  /\ state = Null
  /\ trace = calls
  /\ outcome = [kind |-> "threw", error |-> error, cause |-> cause]

\* new TongoService(starknetAddress, starknetAccount, provider,
\* tongoContractAddress, strkAddress, tongoPrivateKeyOverride): the state once
\* the constructor has returned or thrown
Init ==
  \E owner \in OwnerAddresses, executor \in AccountAddresses, network \in NETWORKS,
     key \in TongoPrivateKeys,
     created \in { Resolved(pk) : pk \in PublicKeys } \cup Rejections :
    LET padded == padAddress(network.tongoContractAddress)
        newAccount == <<Call("TongoAccount", [key |-> key, contractAddress |-> padded])>>
    IN  /\ starknetAddress = padAddress(owner)
        /\ starknetAccount = [address |-> executor]
        /\ tongoContractAddress = padded
        /\ strkAddress = network.strkAddress
        /\ snapshot = NoSnapshot
        /\ pc = Settled
        /\ frame = [op |-> "constructor", key |-> key]
        /\ IF constructorKeyError(key) # Null
             THEN constructorThrew(<<>>, constructorKeyError(key), constructorKeyError(key))
           ELSE IF created.k = "throws"
             THEN constructorThrew(settle(newAccount, created),
                                   accountInitError(created.e), created.e)
           ELSE /\ state = initialState(publicKeyStr(created.v), owner)
                /\ trace = Append(settle(newAccount, created),
                                  [call |-> "publicKey", arg |-> [key |-> key],
                                   result |-> "resolved"])
                /\ outcome = [kind |-> "returned", tx |-> "this"]

(***************************************************************************)
(* fundDonationAccount                                                     *)
(***************************************************************************)
\* the proof system's amount limit, BigInt(2147483647)
Int32Max == 2147483647
MAX_32_BIT == Big(Int32Max)

\* amounts a caller may pass to fund: not positive, one base unit, and the
\* demo's 100 * 10^18 (beyond the mainnet normalisation threshold 10^15)
TokenAmounts == { Big(-1), Big(0), Big(1), BigE(100, 18) }

\* what erc20ToTongo may resolve to
TongoAmounts ==
  { Big(0), Big(1), MAX_32_BIT, BigAdd(MAX_32_BIT, Big(1)) }

\* a check that lets the amount 0 through
amountInvalid_strict(amountInToken) == BigLess(amountInToken, BigZero)

\* amountInToken <= 0n
amountInvalid(amountInToken) == BigLeq(amountInToken, BigZero)

\* isMainnet && tokenAmount >= BigInt(1e15) ? tokenAmount / BigInt(1e12) : tokenAmount
normalizedTokenAmount(amountInToken) ==
  IF isMainnet /\ BigLeq(BigE(1, 15), amountInToken)
    THEN BigDivPow10(amountInToken, 12) ELSE amountInToken

\* no limit check at all
exceeds32Bit_never(tongoAmount) == FALSE

\* a limit check that is off by one
exceeds32Bit_offByOne(tongoAmount) == BigLeq(MAX_32_BIT, tongoAmount)

\* tongoAmount > MAX_32_BIT
exceeds32Bit(tongoAmount) == BigLess(MAX_32_BIT, tongoAmount)

\* a comparison of the addresses as they are, unpadded
addressesDiffer_raw(executorAddress, serviceAddress) ==
  toLowerCase(executorAddress) # toLowerCase(serviceAddress)

\* paddedExecutor.toLowerCase() !== paddedService.toLowerCase()
addressesDiffer(executorAddress, serviceAddress) ==
  toLowerCase(padAddress(executorAddress)) # toLowerCase(padAddress(serviceAddress))

addressMismatchError(executorAddress, serviceAddress) ==
  Error(<<Txt("Address mismatch: Executor ("), Val(padAddress(executorAddress)),
          Txt(") != Service ("), Val(padAddress(serviceAddress)),
          Txt("). This will cause \""), Txt("NotOwner"), Txt("\" error.")>>)

\* the padded owner address as sender
proofSender_padded == starknetAddress

\* sender: this.starknetAccount.address
proofSender == starknetAccount.address

\* the catch block of fundDonationAccount: the error it throws for `error`
fundCatch(error) ==
  LET errorMessage == messageOrUnknown(error)
      has(w) == includes(errorMessage, w)
  IN  IF has("NotOwner") \/ has("NowOwner")
        THEN Error(<<Txt(tokenName), Txt(" approval failed. Ensure you have "),
                     Txt(tokenName), Txt(" and using correct "),
                     Txt(IF isMainnet THEN "mainnet" ELSE "testnet"),
                     Txt(" network. Try: 1) Check wallet balance, 2) Switch to correct network in dropdown, 3) Reload page")>>)
      ELSE IF has("Insufficient balance")
        THEN Error(<<Txt("Insufficient "), Txt(tokenName), Txt(" balance. You need more "),
                     Txt(tokenName), Txt(" in your wallet.")>>)
      ELSE IF has("PubKey is not an EcPoint") \/ has("EcPoint")
        THEN Error(<<Txt("Public key format error: The Tongo SDK generated an invalid public key format. Try: Clear localStorage (localStorage.clear()) and refresh the page to generate a new Tongo key.")>>)
      ELSE IF has("Proof Of Ownership failed") \/ has("Proof") \/ has("proof")
        THEN Error(<<Txt("ZK "), Txt("proof"), Txt(" generation failed. Try reloading page or checking Tongo key.")>>)
      ELSE IF has("resource_bounds") \/ has("gas") \/ has("fee")
        THEN Error(<<Txt("Transaction failed due to invalid "), Txt("gas"),
                     Txt(" bounds. Try: Refresh the page and try again with a smaller amount.")>>)
      ELSE IF has("DEPLOY_ACCOUNT") \/ has("deploy")
        THEN Error(<<Txt("Account deployment error: Your Starknet account may not be deployed yet. Try: Make a small transaction first to "),
                     Txt("deploy"), Txt(" the account, or use a different wallet.")>>)
      ELSE Error(<<Txt("Fund failed: ")>> \o errorMessage)

\* --- the approve call and its calldata -----------------------------------
StringSlot(s) == [t |-> "string", s |-> s]
BigintSlot(n) == [t |-> "bigint", n |-> n]
ObjectSlot == [t |-> "object"]
Undefined == [t |-> "undefined"]

NoCalldata == [k |-> "absent"]
Calldata(slots) == [k |-> "array", v |-> slots]

\* the value of the contract address, and of another address
ContractValue == BigIntOfString(tongoContractAddress)
OtherSpender == 11

\* the allowance slots that follow the spender (a Uint256: low, high)
AllowanceSlots == <<StringSlot(<<"5">>), StringSlot(<<"0">>)>>

\* first slots the SDK may produce for the spender: the address as a number
\* (leading zeros lost) in decimal, in hex, as a bigint, the padded address,
\* another address, a value that is no number
SpenderSlots ==
  { StringSlot(toString10(ContractValue)),
    StringSlot(<<"0","x">> \o toString16(ContractValue)),
    StringSlot(tongoContractAddress),
    BigintSlot(ContractValue),
    StringSlot(<<"0","x">> \o toString16(OtherSpender)),
    ObjectSlot }

ApproveCalls ==
  { [contractAddress |-> strkAddress, entrypoint |-> "approve",
     calldata |-> Calldata(<<s>> \o AllowanceSlots)] : s \in SpenderSlots }
  \cup { [contractAddress |-> strkAddress, entrypoint |-> "approve", calldata |-> c] :
           c \in { NoCalldata, Calldata(<<>>) } }

\* approveCall.calldata && Array.isArray(approveCall.calldata)
isArray(calldata) == calldata.k = "array"
firstSlot(calldata) == IF Len(calldata.v) >= 1 THEN calldata.v[1] ELSE Undefined

\* whether BigInt(spenderValue) converts the slot (it throws otherwise)
slotConverts(slot) ==
  CASE slot.t = "string" -> BigIntParses(slot.s)
    [] slot.t = "bigint" -> TRUE
    [] OTHER -> FALSE

\* BigInt(spenderValue)
slotValue(slot) == IF slot.t = "string" THEN BigIntOfString(slot.s) ELSE slot.n

\* '0x' + BigInt(spenderValue).toString(16).padStart(64, '0')
spenderHex(slot) == <<"0","x">> \o padStart(toString16(slotValue(slot)), AddressHexLength, "0")

\* spenderHex.toLowerCase() !== this.tongoContractAddress.toLowerCase()
spenderMismatch(slot) == toLowerCase(spenderHex(slot)) # toLowerCase(tongoContractAddress)

\* a patch that overwrites the first slot whether or not it matches
patchApprove_always(approveCall) ==
  IF isArray(approveCall.calldata) /\ Len(approveCall.calldata.v) >= 1
    THEN [approveCall EXCEPT !.calldata.v[1] =
            StringSlot(toString10(BigIntOfString(tongoContractAddress)))]
    ELSE approveCall

\* a patch that, on a mismatch, puts another spender in front of the calldata
patchApprove_prepends(approveCall) ==
  IF isArray(approveCall.calldata) /\ Len(approveCall.calldata.v) >= 1
     /\ spenderMismatch(firstSlot(approveCall.calldata))
    THEN [approveCall EXCEPT !.calldata.v =
            <<StringSlot(toString10(OtherSpender))>> \o approveCall.calldata.v]
    ELSE approveCall

\* the patch of the approve calldata: on a mismatch the first slot becomes
\* BigInt(this.tongoContractAddress).toString()
patchApprove(approveCall) ==
  IF isArray(approveCall.calldata) /\ Len(approveCall.calldata.v) >= 1
     /\ spenderMismatch(firstSlot(approveCall.calldata))
    THEN [approveCall EXCEPT !.calldata.v[1] =
            StringSlot(toString10(BigIntOfString(tongoContractAddress)))]
    ELSE approveCall

\* --- getWalletBalance ----------------------------------------------------
\* what provider.callContract may resolve to for balanceOf: [low, high]
BalanceResults ==
  { <<Big(0), Big(0)>>, <<BigE(100, 6), Big(0)>>, <<Big(0), Big(1)>> }

\* getWalletBalance once callContract has settled: BigInt(low) + (BigInt(high) << 128n),
\* or the error of its catch block
getWalletBalanceResult(settled) ==
  IF settled.k = "throws"
    THEN Rejected(Error(<<Txt("Failed to get wallet balance: ")>> \o messageOrString(settled.e)))
    ELSE Resolved(BigAdd(settled.v[1], BigShl128(settled.v[2])))

\* --- the fund call -------------------------------------------------------
\* the calldata the SDK renders for an operation: the proof, bound to the
\* sender and the amount the operation was created with
ProofCalldata(op, request) == <<[proof |-> op, boundTo |-> request]>>

\* what operation.toCalldata() may return or throw
ToCalldataResults(op, request) ==
  { Resolved([k |-> "call",
              v |-> [contractAddress |-> tongoContractAddress, entrypoint |-> op,
                     calldata |-> ProofCalldata(op, request)]]),
    Resolved([k |-> "array", v |-> ProofCalldata(op, request)]),
    Resolved([k |-> "other"]) }
  \cup Rejections

\* the Call built from the result of toCalldata(), or the error thrown
callFromCalldata(op, result, formatError) ==
  IF result.k = "throws" THEN result
  ELSE IF result.v.k = "call" THEN Resolved(result.v.v)
  ELSE IF result.v.k = "array"
    THEN Resolved([contractAddress |-> tongoContractAddress, entrypoint |-> op,
                   calldata |-> result.v.v])
  ELSE Rejected(Error(<<Txt(formatError)>>))

\* the shapes of the operation object tongoAccount.fund resolves to
OperationShapes == { "method", "call", "plain" }

\* an approve call whose spender lost its leading zeros
UsualApprove ==
  [contractAddress |-> strkAddress, entrypoint |-> "approve",
   calldata |-> Calldata(<<StringSlot(toString10(ContractValue))>> \o AllowanceSlots)]

\* what tongoAccount.fund may resolve to: every approve call with the usual
\* shape of the operation, and every shape with the usual approve call
FundOperations(request) ==
  { [approve |-> a, shape |-> "method", request |-> request] :
      a \in ApproveCalls \cup { Undefined } }
  \cup { [approve |-> UsualApprove, shape |-> s, request |-> request] :
           s \in OperationShapes }

\* a bundle with the two calls swapped
fundBundle_swapped(approveCall, fundCall) == <<fundCall, approveCall>>

\* [approveCall, fundCall]
fundBundle(approveCall, fundCall) == <<approveCall, fundCall>>

\* fundDonationAccount(amountInToken), up to await erc20ToTongo
fundDonationAccount ==
  /\ pc = Idle /\ snapshot = NoSnapshot
  /\ \E amountInToken \in TokenAmounts :
       LET f == [op |-> "fund", amountInToken |-> amountInToken, entry |-> state]
           e == Error(<<Txt("Amount must be greater than 0")>>)
       IN  IF amountInvalid(amountInToken)
             THEN Fail(f, <<>>, e, e)
             ELSE Await(f, <<Call("erc20ToTongo", normalizedTokenAmount(amountInToken))>>,
                        <<"fund", "erc20ToTongo">>)
  /\ UNCHANGED <<config, state, snapshot>>

\* erc20ToTongo settles: the limit checks, the address check, await tongoAccount.fund
fund_erc20ToTongo ==
  /\ pc = <<"fund", "erc20ToTongo">>
  /\ \E settled \in { Resolved(a) : a \in TongoAmounts } \cup Rejections :
       IF settled.k = "throws"
         THEN Fail(frame, settle(trace, settled), settled.e, settled.e)
       ELSE
         LET tongoAmount == settled.v
             t == settle(trace, settled)
             f == frame @@ [tongoAmount |-> tongoAmount]
             tooLarge == Error(<<Txt("Amount "), Val(tongoAmount), Txt(" "), Txt(tokenName),
                                 Txt(" exceeds maximum 32-bit limit of "), Val(MAX_32_BIT),
                                 Txt(". Please use a smaller amount.")>>)
             tooSmall == Error(<<Txt("Converted amount must be greater than 0")>>)
             mismatch == addressMismatchError(starknetAccount.address, starknetAddress)
             request == [amount |-> tongoAmount, sender |-> proofSender]
         IN  IF exceeds32Bit(tongoAmount) THEN Fail(f, t, tooLarge, tooLarge)
             ELSE IF BigLeq(tongoAmount, BigZero) THEN Fail(f, t, tooSmall, tooSmall)
             ELSE IF addressesDiffer(starknetAccount.address, starknetAddress)
               THEN Fail(f, t, fundCatch(mismatch), mismatch)
             ELSE Await(f, Append(t, Call("fund", request)), <<"fund", "fund">>)
  /\ UNCHANGED <<config, state, snapshot>>

\* tongoAccount.fund settles: the debug rendering, the approve call and its
\* patch, await getWalletBalance
fund_fund ==
  /\ pc = <<"fund", "fund">>
  /\ \E settled \in { Resolved(o) : o \in FundOperations(trace[Len(trace)].arg) }
                       \cup Rejections,
        debug \in { Resolved("rendered") } \cup Rejections :
       IF settled.k = "throws"
         THEN Fail(frame, settle(trace, settled), fundCatch(settled.e), settled.e)
       ELSE
         LET fundOperation == settled.v
             t == settle(trace, settled)
             approveCall == fundOperation.approve
             missing == Error(<<Txt("Approve call not generated by SDK")>>)
             syntax == SyntaxError("spender")
             f == frame @@ [fundOperation |-> fundOperation]
         IN  IF debug.k = "throws"
               THEN fundOperation.shape = "method"
                    /\ Fail(frame, t, fundCatch(debug.e), debug.e)
             ELSE IF approveCall = Undefined
               THEN Fail(frame, t, fundCatch(missing), missing)
             ELSE IF isArray(approveCall.calldata)
                     /\ ~slotConverts(firstSlot(approveCall.calldata))
               THEN Fail(frame, t, fundCatch(syntax), syntax)
             ELSE Await(f @@ [approveCall |-> patchApprove(approveCall)],
                        Append(t, Call("callContract", "balanceOf")),
                        <<"fund", "getWalletBalance">>)
  /\ UNCHANGED <<config, state, snapshot>>

\* getWalletBalance settles: the balance check, the second patch, the fund
\* call, await starknetAccount.execute
fund_getWalletBalance ==
  /\ pc = <<"fund", "getWalletBalance">>
  /\ \E settled \in { Resolved(b) : b \in BalanceResults } \cup Rejections :
     \E balance \in { getWalletBalanceResult(settled) },
        rendered \in ToCalldataResults("fund", frame.fundOperation.request) :
       LET short == Error(<<Txt("Insufficient balance"), Txt(": "), Val(balance.v),
                            Txt(" < "), Val(frame.amountInToken)>>)
           approveCall == patchApprove(frame.approveCall)
           fundOperation == frame.fundOperation
           t == settle(trace, settled)
           built ==
             IF fundOperation.shape = "method"
               THEN LET c == callFromCalldata("fund", rendered,
                                              "toCalldata() returned unexpected format")
                    IN  IF c.k = "value" THEN c
                        ELSE [c EXCEPT !.e = Error(<<Txt("Failed to get calldata from fund operation: ")>>
                                                   \o messageOrString(c.e))]
             ELSE IF fundOperation.shape = "call"
               THEN Resolved([contractAddress |-> tongoContractAddress, entrypoint |-> "fund",
                              calldata |-> ProofCalldata("fund", fundOperation.request)])
             ELSE Resolved([contractAddress |-> tongoContractAddress, entrypoint |-> "fund",
                            calldata |-> <<>>])
       IN  IF balance.k = "throws" /\ includes(balance.e.message, "Insufficient balance")
             THEN Fail(frame, t, fundCatch(balance.e), settled.e)
           ELSE IF balance.k = "value" /\ BigLess(balance.v, frame.amountInToken)
             THEN Fail(frame, t, fundCatch(short), short)
           ELSE IF built.k = "throws"
             THEN Fail(frame, t, fundCatch(built.e),
                          IF rendered.k = "throws" THEN rendered.e
                          ELSE Error(<<Txt("toCalldata() returned unexpected format")>>))
           ELSE Await([frame EXCEPT !.approveCall = approveCall],
                      Append(t, Call("execute",
                                         [calls |-> fundBundle(approveCall, built.v),
                                          signer |-> starknetAccount.address])),
                      <<"fund", "execute">>)
  /\ UNCHANGED <<config, state, snapshot>>

(***************************************************************************)
(* parsePublicKey                                                          *)
(***************************************************************************)
Reverse(s) == [i \in 1..Len(s) |-> s[Len(s) + 1 - i]]

RECURSIVE trimStart(_)
trimStart(s) == IF s # <<>> /\ Head(s) = " " THEN trimStart(Tail(s)) ELSE s
\* s.trim()
trim(s) == Reverse(trimStart(Reverse(trimStart(s))))

\* BigInt('0x' + hex) of a coordinate: the value, as its hex digits without
\* leading zeros
coordinate(hex) == stripZeros(toLowerCase(hex))

\* length of one coordinate, of a full key and of a compressed point, in hex digits
CoordinateHexLength == 64
FullKeyHexLength == 128
CompressedHexLength == 66

\* parsePublicKey with one error for every hex key that is not 128 digits long
parsePublicKey_generic(pubKeyString, decoded) ==
  LET trimmed == trim(pubKeyString)
      hexValue == slice(trimmed, 2)
      wrap(e) == Error(<<Txt("Failed to parse public key: ")>> \o messageOrString(e)
                       \o <<Txt(". Supported formats: base58 TongoAddress or hex 0x<x64hex><y64hex>")>>)
  IN  IF ~startsWith0x(trimmed)
        THEN IF decoded.k = "throws" THEN Rejected(wrap(decoded.e)) ELSE decoded
      ELSE IF Len(hexValue) = FullKeyHexLength
        THEN Resolved([x |-> coordinate(SubSeq(hexValue, 1, CoordinateHexLength)),
                       y |-> coordinate(SubSeq(hexValue, CoordinateHexLength + 1,
                                               FullKeyHexLength))])
      ELSE Rejected(Error(<<Txt("Invalid hex format"),
                            Txt(". Expected 128 hex chars (64 bytes each for x and y) or base58 TongoAddress format. Got "),
                            Val(Len(hexValue)), Txt(" hex chars.")>>))

\* parsePublicKey(pubKeyString); `decoded` is what pubKeyBase58ToAffine returns
\* or throws for the trimmed string
parsePublicKey(pubKeyString, decoded) ==
  LET trimmed == trim(pubKeyString)
      hexValue == slice(trimmed, 2)
      wrap(e) == Error(<<Txt("Failed to parse public key: ")>> \o messageOrString(e)
                       \o <<Txt(". Supported formats: base58 TongoAddress or hex 0x<x64hex><y64hex>")>>)
      thrown(e) == IF e.isError /\ includes(e.message, "Invalid hex format")
                     THEN Rejected(e) ELSE Rejected(wrap(e))
  IN  IF ~startsWith0x(trimmed)
        THEN IF decoded.k = "throws" THEN thrown(decoded.e) ELSE decoded
      ELSE IF Len(hexValue) = FullKeyHexLength
        THEN IF \A i \in 1..Len(hexValue) : IsHexChar(hexValue[i])
               THEN Resolved([x |-> coordinate(SubSeq(hexValue, 1, CoordinateHexLength)),
                              y |-> coordinate(SubSeq(hexValue, CoordinateHexLength + 1,
                                                      FullKeyHexLength))])
               ELSE thrown(SyntaxError("coordinate"))
      ELSE IF Len(hexValue) = CompressedHexLength
        THEN thrown(Error(<<Txt("Compressed point format detected"), Txt(". Please provide full affine coordinates (x, y) or use base58 TongoAddress format. Expected format: 0x<x64hex><y64hex> (128 hex chars total)")>>))
      ELSE IF Len(hexValue) = CoordinateHexLength
        THEN thrown(Error(<<Txt("Incomplete public key"), Txt(". Please provide both x and y coordinates: 0x<x64hex><y64hex> (128 hex chars total) or use base58 TongoAddress format")>>))
      ELSE thrown(Error(<<Txt("Invalid hex format"),
                          Txt(". Expected 128 hex chars (64 bytes each for x and y) or base58 TongoAddress format. Got "),
                          Val(Len(hexValue)), Txt(" hex chars.")>>))

\* recipient keys a caller may pass: a base58 TongoAddress, full coordinates
\* (also with surrounding blanks), a compressed point, one coordinate, a stub
RecipientKeys ==
  { <<"T","g","7">>,
    <<"0","x">> \o Rep("0", 63) \o <<"7">> \o Rep("0", 62) \o <<"a","B">>,
    <<" ","0","x">> \o Rep("0", 63) \o <<"7">> \o Rep("0", 62) \o <<"a","B"," ">>,
    <<"0","x">> \o Rep("0", 64) \o <<"0","3">>,
    <<"0","x">> \o Rep("0", 63) \o <<"7">>,
    <<"0","x","7">> }

\* what pubKeyBase58ToAffine may return or throw
DecoderResults ==
  { Resolved([x |-> <<"7">>, y |-> <<"a","b">>]),
    Rejected(Error(<<Txt("Invalid base58 TongoAddress")>>)) }

(***************************************************************************)
(* sendPrivateDonation, rolloverBalance, withdrawDonations                 *)
(***************************************************************************)
\* amounts a caller may pass to transfer and withdraw: not positive, one unit,
\* and 2^31, more than any ledger balance drawn
ShieldedAmounts == { Big(0), Big(1), BigAdd(MAX_32_BIT, Big(1)) }

\* the catch block of an operation: the error it throws for `error`
operationCatch(op, error) ==
  CASE op = "fund" -> fundCatch(error)
    [] op = "transfer" ->
         Error(<<Txt("Transfer operation failed: ")>> \o messageOrUnknown(error))
    [] op = "rollover" ->
         Error(<<Txt("Rollover operation failed: ")>> \o messageOrUnknown(error))
    [] op = "withdraw" ->
         Error(<<Txt("Withdraw operation failed: ")>> \o messageOrUnknown(error))

\* accountState.balance < amountInTongo
balanceBelow(accountState, amountInTongo) ==
  CASE accountState.balance.k = "bigint" -> BigLess(accountState.balance.v, amountInTongo)
    [] accountState.balance.k = "null" -> BigLess(BigZero, amountInTongo)
    [] OTHER -> FALSE

insufficientBalance(accountState, amountInTongo) ==
  Error(<<Txt("Insufficient balance"), Txt(": "), Val(accountState.balance),
          Txt(" < "), Val(amountInTongo)>>)

\* a bundle that submits the call twice
singleBundle_twice(call) == <<call, call>>

\* [transferCall], [rolloverCall], [withdrawCall]
singleBundle(call) == <<call>>

\* sendPrivateDonation(recipientPublicKey, amountInTongo), up to await state()
sendPrivateDonation ==
  /\ pc = Idle /\ snapshot = NoSnapshot
  /\ \E recipientPublicKey \in RecipientKeys, amountInTongo \in ShieldedAmounts :
       Await([op |-> "transfer", recipientPublicKey |-> recipientPublicKey,
              amountInTongo |-> amountInTongo, entry |-> state],
             <<Call("state", "balance check")>>, <<"transfer", "state">>)
  /\ UNCHANGED <<config, state, snapshot>>

\* state() settles: the balance check, the recipient key, await tongoAccount.transfer
transfer_state ==
  /\ pc = <<"transfer", "state">>
  /\ \E settled \in { Resolved(a) : a \in AccountStates } \cup Rejections,
        decoded \in DecoderResults :
       LET accountState == settled.v
           typeError == Error(<<Txt("Cannot read properties of null (reading 'balance')")>>)
           short == insufficientBalance(accountState, frame.amountInTongo)
           key == parsePublicKey(frame.recipientPublicKey, decoded)
           request == [to |-> key.v, amount |-> frame.amountInTongo, sender |-> proofSender]
           t == settle(trace, settled)
       IN  IF settled.k = "throws"
             THEN Fail(frame, t, operationCatch("transfer", settled.e), settled.e)
           ELSE IF accountState = Null
             THEN Fail(frame, t, operationCatch("transfer", typeError), typeError)
           ELSE IF balanceBelow(accountState, frame.amountInTongo)
             THEN Fail(frame, t, operationCatch("transfer", short), short)
           ELSE IF key.k = "throws"
             THEN Fail(frame, t, operationCatch("transfer", key.e), key.e)
           ELSE Await(frame, Append(t, Call("transfer", request)), <<"transfer", "transfer">>)
  /\ UNCHANGED <<config, state, snapshot>>

\* withdrawDonations(amountInTongo), up to await state()
withdrawDonations ==
  /\ pc = Idle /\ snapshot = NoSnapshot
  /\ \E amountInTongo \in ShieldedAmounts :
       Await([op |-> "withdraw", amountInTongo |-> amountInTongo, entry |-> state],
             <<Call("state", "balance check")>>, <<"withdraw", "state">>)
  /\ UNCHANGED <<config, state, snapshot>>

\* state() settles: the balance check, await tongoAccount.withdraw
withdraw_state ==
  /\ pc = <<"withdraw", "state">>
  /\ \E settled \in { Resolved(a) : a \in AccountStates } \cup Rejections :
       LET accountState == settled.v
           typeError == Error(<<Txt("Cannot read properties of null (reading 'balance')")>>)
           short == insufficientBalance(accountState, frame.amountInTongo)
           request == [amount |-> frame.amountInTongo, to |-> starknetAccount.address,
                       sender |-> proofSender]
           t == settle(trace, settled)
       IN  IF settled.k = "throws"
             THEN Fail(frame, t, operationCatch("withdraw", settled.e), settled.e)
           ELSE IF accountState = Null
             THEN Fail(frame, t, operationCatch("withdraw", typeError), typeError)
           ELSE IF balanceBelow(accountState, frame.amountInTongo)
             THEN Fail(frame, t, operationCatch("withdraw", short), short)
           ELSE Await(frame, Append(t, Call("withdraw", request)), <<"withdraw", "withdraw">>)
  /\ UNCHANGED <<config, state, snapshot>>

\* rolloverBalance(), up to await tongoAccount.rollover
rolloverBalance ==
  /\ pc = Idle
  /\ Await([op |-> "rollover", entry |-> state],
           <<Call("rollover", [sender |-> proofSender])>>, <<"rollover", "rollover">>)
  /\ UNCHANGED <<config, state, snapshot>>

\* the operation of transfer, rollover or withdraw settles: toCalldata(), the
\* call, await starknetAccount.execute
operationCreated(op) ==
  /\ \E settled \in { Resolved("operation") } \cup Rejections,
        rendered \in ToCalldataResults(op, trace[Len(trace)].arg) :
       LET built == callFromCalldata(op, rendered,
                      CASE op = "transfer" -> "Invalid transfer operation format"
                        [] op = "rollover" -> "Invalid rollover operation format"
                        [] op = "withdraw" -> "Invalid withdraw operation format")
           t == settle(trace, settled)
       IN  IF settled.k = "throws"
             THEN Fail(frame, t, operationCatch(op, settled.e), settled.e)
           ELSE IF built.k = "throws"
             THEN Fail(frame, t, operationCatch(op, built.e), built.e)
           ELSE Await(frame,
                      Append(t, Call("execute", [calls |-> singleBundle(built.v),
                                                     signer |-> starknetAccount.address])),
                      <<op, "execute">>)
  /\ UNCHANGED <<config, state, snapshot>>

transfer_transfer == pc = <<"transfer", "transfer">> /\ operationCreated("transfer")
rollover_rollover == pc = <<"rollover", "rollover">> /\ operationCreated("rollover")
withdraw_withdraw == pc = <<"withdraw", "withdraw">> /\ operationCreated("withdraw")

\* transaction hashes the account may return
TransactionHashes == { "0xtx1" }
\* where the submitted transaction stands at the ledger when the call goes on
\* after execute: execute resolves once the transaction is received, and
\* nothing in the call waits for its acceptance
TransactionStatuses == { "RECEIVED", "ACCEPTED_ON_L2" }

\* starknetAccount.execute settles: on success (for fund, after the three
\* second pause) the call goes on to await refreshState
executeSettled(op) ==
  /\ pc = <<op, "execute">>
  /\ \E settled \in { Resolved([transaction_hash |-> h]) : h \in TransactionHashes }
                       \cup Rejections,
        status \in TransactionStatuses :
       IF settled.k = "throws"
         THEN Fail(frame, settle(trace, settled), operationCatch(op, settled.e), settled.e)
         ELSE Await(frame @@ [tx |-> settled.v, txStatus |-> status],
                    Append(settle(trace, settled), Call("state", "refreshState")),
                    <<op, "refreshState">>)
  /\ UNCHANGED <<config, state, snapshot>>

fund_execute == executeSettled("fund")
transfer_execute == executeSettled("transfer")
rollover_execute == executeSettled("rollover")
withdraw_execute == executeSettled("withdraw")

\* the frame of refreshState once tongoAccount.state() has settled: its
\* local accountState holds the value state() resolved to; where the
\* transaction stood when the query was made is no longer followed
received(f, settled) ==
  LET g == [x \in DOMAIN f \ { "txStatus" } |-> f[x]]
  IN  IF settled.k = "throws" THEN g ELSE g @@ [accountState |-> settled.v]

\* the refreshState of an operation settles: the operation returns the
\* transaction hash, or its catch block throws
refreshSettled(op) ==
  /\ pc = <<op, "refreshState">>
  /\ \E settled \in { Resolved(a) : a \in AccountStates } \cup Rejections :
       LET r == refreshStateResult(state, settled)
           f == received(frame, settled)
       IN  /\ state' = r.state
           /\ IF r.threw
                THEN Fail(f, settle(trace, settled), operationCatch(op, r.error), r.cause)
                ELSE Done(f, settle(trace, settled), frame.tx.transaction_hash)
  /\ UNCHANGED <<config, snapshot>>

fund_refreshState == refreshSettled("fund")
transfer_refreshState == refreshSettled("transfer")
rollover_refreshState == refreshSettled("rollover")
withdraw_refreshState == refreshSettled("withdraw")

\* refreshState() called by the application, up to await state()
refreshState ==
  /\ pc = Idle
  /\ Await([op |-> "refresh", entry |-> state], <<Call("state", "refreshState")>>,
           <<"refresh", "state">>)
  /\ UNCHANGED <<config, state, snapshot>>

\* state() settles: refreshState returns, or throws the error of its catch block
refreshState_state ==
  /\ pc = <<"refresh", "state">>
  /\ \E settled \in { Resolved(a) : a \in AccountStates } \cup Rejections :
       LET r == refreshStateResult(state, settled)
           f == received(frame, settled)
       IN  /\ state' = r.state
           /\ IF r.threw THEN Fail(f, settle(trace, settled), r.error, r.cause)
                         ELSE Done(f, settle(trace, settled), "undefined")
  /\ UNCHANGED <<config, snapshot>>

(***************************************************************************)
(* getPublicKey, getState, getWalletBalance                                *)
(***************************************************************************)
\* getPublicKey(): return this.state.tongoPublicKey
getPublicKey ==
  /\ pc = Idle
  /\ Done([op |-> "getPublicKey", entry |-> state], <<>>, state.tongoPublicKey)
  /\ UNCHANGED <<config, state, snapshot>>

\* the object getState() returns: the same object as this.state
getStateResult_reference(st) == [k |-> "reference"]

\* the object getState() returns: { ...this.state }, a new object with the
\* fields of this.state, all of them primitive values
getStateResult(st) == [k |-> "copy", fields |-> st]

\* getState(); the caller keeps the returned object
getState ==
  /\ pc = Idle
  /\ snapshot' = getStateResult(state)
  /\ Done([op |-> "getState", entry |-> state], <<>>, "snapshot")
  /\ UNCHANGED <<config, state>>

\* the fields read through the object the caller holds
snapshotFields == IF snapshot.k = "reference" THEN state ELSE snapshot.fields

\* assignments the caller may make to a field of the object it holds
CallerWrites ==
  { [field |-> "currentBalance", value |-> Big(7)],
    [field |-> "pendingBalance", value |-> Big(7)],
    [field |-> "nonce", value |-> 7] }

\* the caller assigns to a field of the object it holds
callerWritesSnapshot ==
  /\ pc = Idle /\ snapshot # NoSnapshot
  /\ \E w \in CallerWrites :
       IF snapshot.k = "reference"
         THEN /\ state' = [state EXCEPT ![w.field] = w.value]
              /\ UNCHANGED snapshot
         ELSE /\ snapshot' = [snapshot EXCEPT !.fields[w.field] = w.value]
              /\ UNCHANGED state
  /\ UNCHANGED <<config, pc, frame, trace, outcome>>

\* the caller drops the object it holds
releaseSnapshot ==
  /\ pc = Idle /\ snapshot # NoSnapshot
  /\ snapshot' = NoSnapshot
  /\ UNCHANGED <<config, state, pc, frame, trace, outcome>>

\* getWalletBalance() called by the application, up to await provider.callContract
getWalletBalance ==
  /\ pc = Idle /\ snapshot = NoSnapshot
  /\ Await([op |-> "getWalletBalance", entry |-> state],
           <<Call("callContract", "balanceOf")>>, <<"getWalletBalance", "callContract">>)
  /\ UNCHANGED <<config, state, snapshot>>

\* callContract settles: getWalletBalance returns the balance, or throws the
\* error of its catch block
getWalletBalance_callContract ==
  /\ pc = <<"getWalletBalance", "callContract">>
  /\ \E settled \in { Resolved(b) : b \in BalanceResults } \cup Rejections :
       LET r == getWalletBalanceResult(settled)
       IN  IF r.k = "throws" THEN Fail(frame, settle(trace, settled), r.e, settled.e)
                             ELSE Done(frame, settle(trace, settled), r.v)
  /\ UNCHANGED <<config, state, snapshot>>

\* the caller, awaiting the call, resumes with its value or its exception
callerResumes ==
  /\ pc = Settled
  /\ ~(frame.op = "constructor" /\ outcome.kind = "threw")
  /\ pc' = Idle /\ frame' = [op |-> "none"] /\ trace' = <<>> /\ outcome' = [kind |-> "none"]
  /\ UNCHANGED <<config, state, snapshot>>

Next ==
  \/ callerResumes
  \/ fundDonationAccount \/ fund_erc20ToTongo \/ fund_fund \/ fund_getWalletBalance
  \/ fund_execute \/ fund_refreshState
  \/ sendPrivateDonation \/ transfer_state \/ transfer_transfer
  \/ transfer_execute \/ transfer_refreshState
  \/ rolloverBalance \/ rollover_rollover \/ rollover_execute \/ rollover_refreshState
  \/ withdrawDonations \/ withdraw_state \/ withdraw_withdraw
  \/ withdraw_execute \/ withdraw_refreshState
  \/ refreshState \/ refreshState_state
  \/ getPublicKey \/ getState \/ callerWritesSnapshot \/ releaseSnapshot
  \/ getWalletBalance \/ getWalletBalance_callContract

Spec == Init /\ [][Next]_vars

(***************************************************************************)
(* padAddress on arbitrary strings                                         *)
(***************************************************************************)
\* characters of the strings padAddress is applied to: hex digits in both
\* cases, the two spellings of the prefix letter, and a character that is
\* no hex digit
AddressChars == { "0", "1", "a", "A", "x", "X", "g" }
\* longest beginning of a string drawn character by character
MaxHeadLen == 2
StringsUpTo(n) == UNION { [1..k -> AddressChars] : k \in 0..n }
\* the rest of the string: nothing, or a run of digits that brings the
\* payload just below, to, and above the padded width
AddressTails ==
  { <<>>, Rep("f", AddressHexLength - 2), Rep("f", AddressHexLength),
    Rep("f", AddressHexLength + 2) }
AddressStrings == { head \o tail : head \in StringsUpTo(MaxHeadLen), tail \in AddressTails }

\* a string is given to padAddress
PadInit ==
  /\ starknetAddress = <<>> /\ starknetAccount = Null
  /\ tongoContractAddress = <<>> /\ strkAddress = <<>>
  /\ state = Null /\ snapshot = NoSnapshot
  /\ trace = <<>> /\ outcome = [kind |-> "none"]
  /\ pc = <<"padAddress", "address">>
  /\ \E address \in AddressStrings : frame = [op |-> "padAddress", address |-> address]

\* padAddress(address): the function has no throw, it returns for every string
padAddress_once ==
  /\ pc = <<"padAddress", "address">>
  /\ frame' = frame @@ [once |-> padAddress(frame.address)]
  /\ outcome' = [kind |-> "returned", tx |-> "padded"]
  /\ pc' = <<"padAddress", "once">>
  /\ UNCHANGED <<config, state, snapshot, trace>>

\* padAddress(padAddress(address))
padAddress_twice ==
  /\ pc = <<"padAddress", "once">>
  /\ frame' = frame @@ [twice |-> padAddress(frame.once)]
  /\ pc' = <<"padAddress", "twice">>
  /\ UNCHANGED <<config, state, snapshot, trace, outcome>>

PadNext == padAddress_once \/ padAddress_twice

PadSpec == PadInit /\ [][PadNext]_vars

(***************************************************************************)
(* parsePublicKey and the hex form of a point, on full keys                *)
(***************************************************************************)
\* digits of a coordinate that are drawn one by one: hex digits in both cases
CoordinateChars == { "0", "7", "a", "B" }
\* number of low digits of a coordinate that are drawn
MaxCoordinateDigits == 2
\* 64 hex digits: zeros and then the drawn digits, all f, a leading B
CoordinateHexes ==
  { padStart(low, CoordinateHexLength, "0") :
      low \in UNION { [1..k -> CoordinateChars] : k \in 0..MaxCoordinateDigits } }
  \cup { Rep("f", CoordinateHexLength), <<"B">> \o Rep("0", CoordinateHexLength - 1) }
\* 0x and 128 hex digits, and one key with a character that is no hex digit
FullKeys ==
  { <<"0","x">> \o xHex \o yHex : xHex \in CoordinateHexes, yHex \in CoordinateHexes }
  \cup { <<"0","x">> \o Rep("0", FullKeyHexLength - 1) \o <<"g">> }

\* a full key is given to parsePublicKey
KeyInit ==
  /\ starknetAddress = <<>> /\ starknetAccount = Null
  /\ tongoContractAddress = <<>> /\ strkAddress = <<>>
  /\ state = Null /\ snapshot = NoSnapshot
  /\ trace = <<>> /\ outcome = [kind |-> "none"]
  /\ pc = <<"parsePublicKey", "pubKeyString">>
  /\ \E pubKeyString \in FullKeys :
       frame = [op |-> "parsePublicKey", pubKeyString |-> pubKeyString]

\* parsePublicKey(pubKeyString): the point {x, y}, or the error it throws
key_parsePublicKey ==
  /\ pc = <<"parsePublicKey", "pubKeyString">>
  /\ \E decoded \in DecoderResults :
       LET parsed == parsePublicKey(frame.pubKeyString, decoded)
       IN  IF parsed.k = "throws"
             THEN Fail(frame, trace, parsed.e, parsed.e)
             ELSE /\ frame' = frame @@ [point |-> parsed.v]
                  /\ outcome' = [kind |-> "returned", tx |-> "point"]
                  /\ pc' = <<"parsePublicKey", "point">>
                  /\ UNCHANGED trace
  /\ UNCHANGED <<config, state, snapshot>>

\* the point written as the constructor writes a public key point:
\* x.toString(16) and y.toString(16), padded, after 0x
key_pointHex ==
  /\ pc = <<"parsePublicKey", "point">>
  /\ frame' = frame @@ [publicKeyStr |-> pointHex(frame.point.x, frame.point.y)]
  /\ pc' = <<"parsePublicKey", "publicKeyStr">>
  /\ UNCHANGED <<config, state, snapshot, trace, outcome>>

KeyNext == key_parsePublicKey \/ key_pointHex

KeySpec == KeyInit /\ [][KeyNext]_vars

(***************************************************************************)
(* refreshState calls that overlap on one client                           *)
(***************************************************************************)
\* number of refreshState calls the application makes without awaiting them
MaxOverlap == 2

\* a constructed service on which no call has been made yet
OverlapInit ==
  \E owner \in OwnerAddresses, executor \in AccountAddresses, network \in NETWORKS,
     pk \in PublicKeys :
    /\ starknetAddress = padAddress(owner)
    /\ starknetAccount = [address |-> executor]
    /\ tongoContractAddress = padAddress(network.tongoContractAddress)
    /\ strkAddress = network.strkAddress
    /\ state = initialState(publicKeyStr(pk), owner)
    /\ snapshot = NoSnapshot
    /\ pc = <<"refresh", "overlap">>
    /\ frame = [op |-> "refresh", entry |-> initialState(publicKeyStr(pk), owner),
                returned |-> <<>>]
    /\ trace = <<>>
    /\ outcome = [kind |-> "none"]

\* refreshState() is called while earlier calls are still awaiting state():
\* the call runs up to its await
overlap_refreshState ==
  /\ pc = <<"refresh", "overlap">>
  /\ Len(trace) < MaxOverlap
  /\ trace' = Append(trace, Call("state", "refreshState"))
  /\ UNCHANGED <<config, state, snapshot, pc, frame, outcome>>

\* once all the calls are in flight, state() settles for one of them, in any
\* order: that call runs from its await to its end without interruption
overlap_state ==
  /\ pc = <<"refresh", "overlap">>
  /\ Len(trace) = MaxOverlap
  /\ \E i \in { j \in 1..Len(trace) : trace[j].result = "pending" },
        settled \in { Resolved(a) : a \in AccountStates } \cup Rejections :
       /\ state' = refreshStateResult(state, settled).state
       /\ trace' = [trace EXCEPT ![i].result =
                      IF settled.k = "throws" THEN "rejected" ELSE "resolved"]
       /\ frame' = [frame EXCEPT !.returned = Append(@, [call |-> i, settled |-> settled])]
  /\ UNCHANGED <<config, snapshot, pc, outcome>>

\* getState() between the steps of the calls in flight
overlap_getState ==
  /\ pc = <<"refresh", "overlap">>
  /\ snapshot' = getStateResult(state)
  /\ UNCHANGED <<config, state, pc, frame, trace, outcome>>

OverlapNext == overlap_refreshState \/ overlap_state \/ overlap_getState

OverlapSpec == OverlapInit /\ [][OverlapNext]_vars

(***************************************************************************)
(* The key manager: generateTongoPrivateKey, getOrCreateTongoKey,          *)
(* saveTongoKey, hasTongoKey                                               *)
(***************************************************************************)
\* 'your_tongo_private_key_here'
KeyPlaceholder == <<"y","o","u","r","_","t","o","n","g","o","_","p","r","i","v","a","t","e","_","k","e","y","_","h","e","r","e">>

\* number of random bytes of a key
KeyBytes == 32

\* b.toString(16).padStart(2, '0') of one byte
byteHex(b) == padStart(toString16(b), 2, "0")

\* '0x' + Array.from(array).map(b => b.toString(16).padStart(2, '0')).join(''),
\* and '0x' + randomBytes(32).toString('hex')
randomKey(array) ==
  <<"0","x">> \o [i \in 1..(2 * Len(array)) |-> byteHex(array[(i + 1) \div 2])[2 - (i % 2)]]

\* the bytes a hex number of 64 digits is made of
bytesOfHex(h) ==
  [i \in 1..KeyBytes |-> HexCharVal(h[2 * i - 1]) * 16 + HexCharVal(h[2 * i])]

\* what getRandomValues and randomBytes may draw: 0, 1, the curve order less
\* one, the curve order
RandomDraws ==
  { [i \in 1..KeyBytes |-> 0],
    [i \in 1..KeyBytes |-> IF i = KeyBytes THEN 1 ELSE 0],
    bytesOfHex(<<"0">> \o SubSeq(starkCurveOrderHex, 1, 62) \o <<"e">>),
    bytesOfHex(<<"0">> \o starkCurveOrderHex) }

\* a loop condition that redraws a key above the curve order only
redraw_above(key) == MagLess(starkCurveOrder, hexDigits(slice(key, 2)))

\* the condition of the do-while: keyBigInt < 1n || keyBigInt >= starkCurveOrder
redraw(key) ==
  LET n == hexDigits(slice(key, 2))
  IN  MagLess(n, <<1>>) \/ ~MagLess(n, starkCurveOrder)

\* an item of localStorage, or the environment variable: a string, or null
\* (undefined) when it is not set
Item(s) == [k |-> "string", s |-> s]

\* a test that takes every stored string for a key
usable_any(storedKey) == storedKey # Null

\* storedKey && storedKey.trim() !== '' && storedKey !== 'your_tongo_private_key_here'
usable(storedKey) ==
  /\ storedKey # Null /\ storedKey.s # <<>>
  /\ trim(storedKey.s) # <<>>
  /\ storedKey.s # KeyPlaceholder

\* !!(key && key.trim() !== '' && key !== 'your_tongo_private_key_here')
hasKey(key) ==
  /\ key # Null /\ key.s # <<>>
  /\ trim(key.s) # <<>>
  /\ key.s # KeyPlaceholder

\* strings found in storage or passed to saveTongoKey: blank, the
\* placeholder, the key 1, the curve order
KeyStrings ==
  { <<" ", " ">>, KeyPlaceholder, <<"0","x","1">>, <<"0","x">> \o starkCurveOrderHex }

\* calls of the key manager in one run, and draws of one generateTongoPrivateKey
MaxCalls == 3
MaxDraws == 2

\* window is defined (browser) or not (Node.js); tongo_private_key is the
\* item of localStorage in the browser, process.env.TONGO_PRIVATE_KEY in Node.js
ManagerInit ==
  /\ starknetAddress = <<>> /\ starknetAccount = Null
  /\ tongoContractAddress = <<>> /\ strkAddress = <<>>
  /\ snapshot = NoSnapshot
  /\ trace = <<>> /\ outcome = [kind |-> "none"]
  /\ pc = Idle /\ frame = [op |-> "none"]
  /\ \E window \in BOOLEAN, stored \in { Null } \cup { Item(s) : s \in KeyStrings } :
       state = [window |-> window, tongo_private_key |-> stored]

\* a finished call of the key manager: what it read from storage or was
\* passed, what it returned, and whether it generated a key
managerCall(name, arg, result, generated) ==
  [call |-> name, arg |-> arg, result |-> result, generated |-> generated]

managerReturns(name, arg, result, generated) ==
  /\ trace' = Append(trace, managerCall(name, arg, result, generated))
  /\ outcome' = [kind |-> "returned", tx |-> result]
  /\ pc' = Idle /\ frame' = [op |-> "none"]

\* generateTongoPrivateKey() called by the application, up to its loop
generateTongoPrivateKey ==
  /\ pc = Idle /\ Len(trace) < MaxCalls
  /\ pc' = <<"generateTongoPrivateKey", "do">>
  /\ frame' = [op |-> "generateTongoPrivateKey", storedKey |-> Null, draws |-> 0]
  /\ outcome' = [kind |-> "pending"]
  /\ UNCHANGED <<config, state, snapshot, trace>>

\* getOrCreateTongoKey(): the stored key, or the call of generateTongoPrivateKey
getOrCreateTongoKey ==
  /\ pc = Idle /\ Len(trace) < MaxCalls
  /\ LET storedKey == state.tongo_private_key
     IN  IF usable(storedKey)
           THEN managerReturns("getOrCreateTongoKey", storedKey, storedKey.s, FALSE)
           ELSE /\ pc' = <<"getOrCreateTongoKey", "do">>
                /\ frame' = [op |-> "getOrCreateTongoKey", storedKey |-> storedKey, draws |-> 0]
                /\ outcome' = [kind |-> "pending"]
                /\ UNCHANGED trace
  /\ UNCHANGED <<config, state, snapshot>>

\* one pass of the do-while of generateTongoPrivateKey: a key is drawn, and
\* drawn again while it is out of range; the key that is in range is returned
\* and, by getOrCreateTongoKey in the browser, stored
generate_do ==
  /\ pc \in { <<"generateTongoPrivateKey", "do">>, <<"getOrCreateTongoKey", "do">> }
  /\ \E array \in RandomDraws :
       LET key == randomKey(array)
       IN  IF redraw(key)
             THEN /\ frame.draws < MaxDraws
                  /\ frame' = [frame EXCEPT !.draws = @ + 1]
                  /\ UNCHANGED <<state, pc, trace, outcome>>
             ELSE /\ managerReturns(frame.op, frame.storedKey, key, TRUE)
                  /\ state' = IF frame.op = "getOrCreateTongoKey" /\ state.window
                                THEN [state EXCEPT !.tongo_private_key = Item(key)]
                                ELSE state
  /\ UNCHANGED <<config, snapshot>>

\* saveTongoKey(key): localStorage.setItem in the browser, a warning in Node.js
saveTongoKey ==
  /\ pc = Idle /\ Len(trace) < MaxCalls
  /\ \E key \in KeyStrings :
       /\ state' = IF state.window THEN [state EXCEPT !.tongo_private_key = Item(key)]
                                   ELSE state
       /\ managerReturns("saveTongoKey", Item(key), <<>>, FALSE)
  /\ UNCHANGED <<config, snapshot>>

\* hasTongoKey()
hasTongoKey ==
  /\ pc = Idle /\ Len(trace) < MaxCalls
  /\ managerReturns("hasTongoKey", state.tongo_private_key,
                    hasKey(state.tongo_private_key), FALSE)
  /\ UNCHANGED <<config, state, snapshot>>

ManagerNext ==
  generateTongoPrivateKey \/ getOrCreateTongoKey \/ generate_do \/ saveTongoKey \/ hasTongoKey

ManagerSpec == ManagerInit /\ [][ManagerNext]_vars

(***************************************************************************)
(* The proof API server: POST /api/generate-proof                          *)
(***************************************************************************)
\* requests the server handles in one run
MaxRequests == 2

\* bodies of the requests: { donationamount, threshold, donorsecret, badgetier }
RequestBodies ==
  { [donationamount |-> 1500, threshold |-> 1000, donorsecret |-> 1, badgetier |-> 2],
    [donationamount |-> 1000, threshold |-> 1000, donorsecret |-> 2, badgetier |-> 2] }

\* p.F.toString(p([BigInt(donorsecret), BigInt(donationamount)])): the hash
\* is the pair of its inputs, no two inputs collide
poseidonCommitment(body) == <<"poseidon", body.donorsecret, body.donationamount>>

\* the text written to Prover.toml
proverToml(body, commitment) ==
  [donation_amount |-> body.donationamount, donor_secret |-> body.donorsecret,
   threshold |-> body.threshold, badge_tier |-> body.badgetier,
   donation_commitment |-> commitment]

\* the commands of one request, in the order of the handler
ProofCommands == <<"nargo execute", "bb prove", "bb write_vk", "garaga calldata">>

\* a file of the circuit directory that has not been written
NoFile == [k |-> "none"]

\* the file a command reads that is made from the inputs, NoFile for none
commandInput(cmd, files) ==
  CASE cmd = "nargo execute" -> files.proverToml
    [] cmd = "bb prove" -> files.witness
    [] cmd = "bb write_vk" -> [k |-> "circuit"]
    [] cmd = "garaga calldata" -> IF files.vk = NoFile THEN NoFile ELSE files.proof

\* the files of the circuit directory once a command has exited with code 0:
\* nargo execute solves the witness for Prover.toml, bb prove proves the
\* witness, bb write_vk writes the key of the circuit
commandOutput(cmd, files) ==
  CASE cmd = "nargo execute" -> [files EXCEPT !.witness = [k |-> "witness", of |-> files.proverToml]]
    [] cmd = "bb prove" -> [files EXCEPT !.proof = [k |-> "proof", of |-> files.witness.of]]
    [] cmd = "bb write_vk" -> [files EXCEPT !.vk = [k |-> "vk"]]
    [] cmd = "garaga calldata" -> files

\* the server has started; the circuit directory holds no file of a request
ServerInit ==
  /\ starknetAddress = <<>> /\ starknetAccount = Null
  /\ tongoContractAddress = <<>> /\ strkAddress = <<>>
  /\ snapshot = NoSnapshot
  /\ state = [proverToml |-> NoFile, witness |-> NoFile, proof |-> NoFile, vk |-> NoFile]
  /\ trace = <<>> /\ outcome = [kind |-> "none"]
  /\ pc = <<"server", "fetch">> /\ frame = [op |-> "server"]

\* the requests are the entries of trace: the body, the await the handler is
\* at, the commitment it computed, the response it returned
requestsAt(where) == { i \in 1..Len(trace) : trace[i].at = where }

\* fetch(req) for a POST to /api/generate-proof, up to await req.json()
server_fetch ==
  /\ pc = <<"server", "fetch">> /\ Len(trace) < MaxRequests
  /\ \E body \in RequestBodies :
       trace' = Append(trace, [body |-> body, at |-> "json", commitment |-> NoFile,
                                response |-> NoFile])
  /\ UNCHANGED <<config, state, snapshot, pc, frame, outcome>>

\* the body and the hasher are there: the commitment, writeFileSync of
\* Prover.toml, and runCmd of nargo execute up to its await
server_writeProver ==
  /\ pc = <<"server", "fetch">>
  /\ \E i \in requestsAt("json") :
       LET commitment == poseidonCommitment(trace[i].body)
       IN  /\ state' = [state EXCEPT !.proverToml = proverToml(trace[i].body, commitment)]
           /\ trace' = [trace EXCEPT ![i].commitment = commitment, ![i].at = ProofCommands[1]]
  /\ UNCHANGED <<config, snapshot, pc, frame, outcome>>

\* the command a request awaits exits: with code 0 the handler starts the
\* next command, or returns the calldata with the commitment after the last
\* one; with another code runCmd throws and the handler returns the error
server_runCmd ==
  /\ pc = <<"server", "fetch">>
  /\ \E n \in 1..Len(ProofCommands), exitCode \in { 0, 1 } :
     \E i \in requestsAt(ProofCommands[n]) :
       LET cmd == ProofCommands[n]
           failed == [error |-> <<Txt(cmd), Txt(" failed (exit "), Val(exitCode),
                                  Txt("). Check server logs for details.")>>,
                      success |-> FALSE]
       IN  IF exitCode # 0
             THEN /\ trace' = [trace EXCEPT ![i].at = "done", ![i].response = failed]
                  /\ UNCHANGED state
             ELSE /\ commandInput(cmd, state) # NoFile
                  /\ state' = commandOutput(cmd, state)
                  /\ trace' =
                       IF n < Len(ProofCommands)
                         THEN [trace EXCEPT ![i].at = ProofCommands[n + 1]]
                         ELSE [trace EXCEPT ![i].at = "done",
                                            ![i].response =
                                              [calldata |-> [vk |-> state.vk, proof |-> state.proof],
                                               commitment |-> trace[i].commitment,
                                               success |-> TRUE]]
  /\ UNCHANGED <<config, snapshot, pc, frame, outcome>>

ServerNext == server_fetch \/ server_writeProver \/ server_runCmd

ServerSpec == ServerInit /\ [][ServerNext]_vars

(***************************************************************************)
(* BadgeService.generateProof                                              *)
(***************************************************************************)
\* enum BadgeTier
BadgeTiers == { 0, 1, 2, 3 }

\* getTierThreshold(tier), in cents
getTierThreshold(tier) ==
  CASE tier = 1 -> 1000
    [] tier = 2 -> 10000
    [] tier = 3 -> 100000
    [] OTHER -> 0

\* a threshold check that lets every amount through
belowThreshold_never(donationAmountCents, threshold) == FALSE

\* input.donationAmountCents < threshold
belowThreshold(donationAmountCents, threshold) == donationAmountCents < threshold

\* donations in cents: nothing, one cent below and at the bronze threshold,
\* one cent below the silver threshold
DonationAmounts == { 0, 999, 1000, 9999 }

\* the inputs of generateProof
DonationProofInputs ==
  { [donationAmountCents |-> a, donorSecret |-> "hunter2", targetTier |-> t] :
      a \in DonationAmounts, t \in BadgeTiers }

\* computeCommitment(donorSecret, donationAmountCents): the hash is the pair
\* of its inputs
computeCommitment(donorSecret, donationAmountCents) ==
  <<"poseidon", donorSecret, donationAmountCents>>

\* what fetch resolves to: a response that is ok or not
FetchResponses == { [ok |-> TRUE], [ok |-> FALSE] }

\* what response.json() resolves to: the answer of the proof server, an
\* answer without commitment, an answer with neither calldata nor commitment
ProofResults ==
  { [calldata |-> Calldata(<<StringSlot(<<"1">>)>>), commitment |-> StringSlot(<<"7">>)],
    [calldata |-> Calldata(<<StringSlot(<<"1">>)>>), commitment |-> Undefined],
    [calldata |-> Undefined, commitment |-> Undefined] }

\* onStatusUpdate?.({ stage, ... })
statusUpdate(stage) == [call |-> "onStatusUpdate", arg |-> stage, result |-> "resolved"]

\* a BadgeService has been constructed
BadgeInit ==
  /\ starknetAddress = <<>> /\ starknetAccount = Null
  /\ tongoContractAddress = <<>> /\ strkAddress = <<>>
  /\ snapshot = NoSnapshot /\ state = Null
  /\ trace = <<>> /\ outcome = [kind |-> "none"]
  /\ pc = Idle /\ frame = [op |-> "none"]

\* generateProof(input, onStatusUpdate), up to await fetch
generateProof ==
  /\ pc = Idle
  /\ \E input \in DonationProofInputs :
       LET threshold == getTierThreshold(input.targetTier)
           f == [op |-> "generateProof", input |-> input, threshold |-> threshold]
           below == Error(<<Txt("Donation amount $"), Val(input.donationAmountCents),
                            Txt(" is below threshold $"), Val(threshold)>>)
           commitment == computeCommitment(input.donorSecret, input.donationAmountCents)
       IN  IF belowThreshold(input.donationAmountCents, threshold)
             THEN Fail(f, <<>>, below, below)
             ELSE Await(f @@ [commitment |-> commitment],
                        <<statusUpdate("computing_commitment"),
                          statusUpdate("generating_proof"),
                          Call("fetch", [donation_amount |-> input.donationAmountCents,
                                         donor_secret |-> input.donorSecret,
                                         threshold |-> threshold,
                                         badge_tier |-> input.targetTier,
                                         donation_commitment |-> commitment])>>,
                        <<"generateProof", "fetch">>)
  /\ UNCHANGED <<config, state, snapshot>>

\* fetch settles: await response.text() of a response that is not ok, await
\* response.json() of one that is
generateProof_fetch ==
  /\ pc = <<"generateProof", "fetch">>
  /\ \E settled \in { Resolved(r) : r \in FetchResponses } \cup Rejections :
       IF settled.k = "throws"
         THEN Fail(frame, settle(trace, settled), settled.e, settled.e)
       ELSE IF ~settled.v.ok
         THEN Await(frame, Append(settle(trace, settled), Call("text", "response")),
                    <<"generateProof", "text">>)
       ELSE Await(frame, Append(settle(trace, settled), Call("json", "response")),
                  <<"generateProof", "json">>)
  /\ UNCHANGED <<config, state, snapshot>>

\* response.text() settles: the error status and the error thrown
generateProof_text ==
  /\ pc = <<"generateProof", "text">>
  /\ \E settled \in { Resolved(<<Txt("nargo execute failed")>>) } \cup Rejections :
       IF settled.k = "throws"
         THEN Fail(frame, settle(trace, settled), settled.e, settled.e)
         ELSE LET e == Error(<<Txt("Proof generation failed: ")>> \o settled.v)
              IN  Fail(frame, Append(settle(trace, settled), statusUpdate("error")), e, e)
  /\ UNCHANGED <<config, state, snapshot>>

\* response.json() settles: the status complete and the BadgeProof returned
generateProof_json ==
  /\ pc = <<"generateProof", "json">>
  /\ \E settled \in { Resolved(r) : r \in ProofResults } \cup Rejections :
       IF settled.k = "throws"
         THEN Fail(frame, settle(trace, settled), settled.e, settled.e)
         ELSE Done(frame @@ [result |-> settled.v],
                   Append(settle(trace, settled), statusUpdate("complete")),
                   [fullProofWithHints |-> settled.v.calldata,
                    threshold |-> frame.threshold,
                    donationCommitment |-> frame.commitment,
                    badgeTier |-> frame.input.targetTier])
  /\ UNCHANGED <<config, state, snapshot>>

BadgeNext ==
  \/ generateProof \/ generateProof_fetch \/ generateProof_text \/ generateProof_json
  \/ callerResumes

BadgeSpec == BadgeInit /\ [][BadgeNext]_vars

(***************************************************************************)
(* Properties                                                              *)
(***************************************************************************)
Operations == { "fund", "transfer", "rollover", "withdraw" }
Entries == 1..Len(trace)
entriesOf(name) == { i \in Entries : trace[i].call = name }
\* the calls that create an operation with its proof
created == { i \in Entries : trace[i].call \in Operations }
\* the value an account address denotes: its hex digits read as a number
addressNumber(a) == DigitsVal(stripZeros(IF startsWith0x(a) THEN slice(a, 2) ELSE a), 16, 0)
mismatchRaised ==
  /\ outcome.kind = "threw"
  /\ outcome.cause = addressMismatchError(starknetAccount.address, starknetAddress)
\* the converted amount passed the limit checks, so fund came to its address check
reachedAddressCheck ==
  /\ "tongoAmount" \in DOMAIN frame
  /\ ~BigLess(MAX_32_BIT, frame.tongoAmount)
  /\ BigLess(BigZero, frame.tongoAmount)

\* C1: in fund the address check passes exactly when the executor address and
\* the owner address denote the same address: spellings that differ in case,
\* prefix or leading zeros never raise the mismatch; when the addresses
\* differ, fund fails at the check and neither tongoAccount.fund nor
\* starknetAccount.execute is called
C1_IdentityCheck ==
  frame.op = "fund" =>
    LET same == addressNumber(starknetAccount.address) = addressNumber(starknetAddress)
    IN  /\ same => /\ ~mismatchRaised
                   /\ reachedAddressCheck => entriesOf("fund") # {}
        /\ ~same => /\ \A i \in Entries : trace[i].call \notin { "fund", "execute" }
                    /\ reachedAddressCheck => pc = Settled /\ mismatchRaised

C1_Witness ==
  /\ frame.op = "fund" /\ pc = Settled /\ mismatchRaised
  /\ addressNumber(starknetAccount.address) # addressNumber(starknetAddress)

\* C2: the sender given to the SDK for every operation is the address string
\* of the account that executes the bundle, as it is, and the proof in a
\* submitted bundle is bound to the address of the account that signs it
C2_SenderIsExecutor ==
  \A i \in Entries :
    /\ i \in created => trace[i].arg.sender = starknetAccount.address
    /\ trace[i].call = "execute" =>
         /\ trace[i].arg.signer = starknetAccount.address
         /\ \A c \in 1..Len(trace[i].arg.calls) :
              LET call == trace[i].arg.calls[c]
              IN  call.entrypoint # "approve" =>
                    \A p \in 1..Len(call.calldata) :
                      call.calldata[p].boundTo.sender = trace[i].arg.signer

C2_Witness ==
  /\ starknetAccount.address # starknetAddress
  /\ \E i \in entriesOf("execute") :
       /\ trace[i].result = "resolved"
       /\ \E c \in 1..Len(trace[i].arg.calls) :
            /\ trace[i].arg.calls[c].entrypoint \in { "transfer", "withdraw" }
            /\ trace[i].arg.calls[c].calldata # <<>>

\* C3: the approve call of every bundle fund submits carries, in its first
\* calldata slot, a value that renders as the padded contract address
C3_SubmittedSpender ==
  frame.op = "fund" =>
    \A i \in entriesOf("execute") :
      LET approveCall == trace[i].arg.calls[1]
      IN  /\ isArray(approveCall.calldata)
          /\ Len(approveCall.calldata.v) >= 1
          /\ slotConverts(approveCall.calldata.v[1])
          /\ toLowerCase(<<"0","x">> \o padStart(toString16(slotValue(approveCall.calldata.v[1])),
                                                 AddressHexLength, "0"))
               = toLowerCase(tongoContractAddress)

\* C4: fund calls execute at most once, with the bundle [approve call, fund
\* call] in this order, and never without an approve call from the SDK
C4_FundBundle ==
  frame.op = "fund" =>
    /\ Cardinality(entriesOf("execute")) <= 1
    /\ \A i \in entriesOf("execute") :
         /\ Len(trace[i].arg.calls) = 2
         /\ trace[i].arg.calls[1].entrypoint = "approve"
         /\ trace[i].arg.calls[1] = frame.approveCall
         /\ trace[i].arg.calls[2].entrypoint = "fund"
         /\ frame.fundOperation.approve # Undefined

C4_Witness ==
  /\ frame.op = "fund" /\ pc = Settled /\ outcome.kind = "returned"
  /\ entriesOf("execute") # {}

\* C5: fund with an amount <= 0 throws 'Amount must be greater than 0',
\* calls no collaborator and leaves the cached state as it was
C5_AmountInvalid ==
  (frame.op = "fund" /\ (frame.amountInToken.neg \/ frame.amountInToken.mag = <<0>>)) =>
    /\ pc = Settled
    /\ outcome.kind = "threw"
    /\ outcome.error = Error(<<Txt("Amount must be greater than 0")>>)
    /\ trace = <<>>
    /\ state = frame.entry

C5_Witness ==
  /\ frame.op = "fund" /\ frame.amountInToken = BigZero
  /\ pc = Settled /\ outcome.kind = "threw" /\ trace = <<>>

\* C6: tongoAccount.fund is called only with an amount a, 0 < a <= 2^31-1;
\* a converted amount above 2^31-1 makes fund throw the limit error with no
\* call but erc20ToTongo made, and 2^31-1 itself does not raise that error
C6_AmountLimit ==
  frame.op = "fund" =>
    LET limitError == outcome.kind = "threw"
                      /\ includes(outcome.error.message, " exceeds maximum 32-bit limit of ")
    IN  /\ \A i \in entriesOf("fund") :
             /\ BigLess(BigZero, trace[i].arg.amount)
             /\ ~MagLess(<<2,1,4,7,4,8,3,6,4,7>>, trace[i].arg.amount.mag)
        /\ "tongoAmount" \in DOMAIN frame =>
             IF MagLess(<<2,1,4,7,4,8,3,6,4,7>>, frame.tongoAmount.mag)
               THEN pc = Settled /\ limitError /\ Len(trace) = 1
               ELSE ~limitError

C6_Witness ==
  /\ frame.op = "fund"
  /\ \E i \in entriesOf("fund") : trace[i].arg.amount.mag = <<2,1,4,7,4,8,3,6,4,7>>

\* the order of the steps of one call: one operation created, one execute,
\* after the operation; the refresh after execute; one call in the bundle of
\* transfer, rollover and withdraw
stepsInOrder ==
  /\ Cardinality(created) <= 1
  /\ Cardinality(entriesOf("execute")) <= 1
  /\ \A i \in entriesOf("execute") :
       /\ \E j \in created : j < i /\ trace[j].result = "resolved" /\ trace[j].call = frame.op
       /\ frame.op # "fund" => Len(trace[i].arg.calls) = 1
  /\ \A i \in Entries :
       (trace[i].call = "state" /\ trace[i].arg = "refreshState") =>
         \E j \in entriesOf("execute") : j < i /\ trace[j].result = "resolved"

C8_NoPartialSuccess ==
  (frame.op \in Operations /\ pc = Settled) =>
    /\ \A i \in entriesOf("execute") :
         trace[i].result = "resolved" =>
           outcome.kind = "returned" /\ outcome.tx = frame.tx.transaction_hash
    /\ outcome.kind = "threw" =>
         \A i \in entriesOf("execute") : trace[i].result # "resolved"

operationPrefix ==
  CASE frame.op = "fund" -> Txt("Fund failed: ")
    [] frame.op = "transfer" -> Txt("Transfer operation failed: ")
    [] frame.op = "rollover" -> Txt("Rollover operation failed: ")
    [] frame.op = "withdraw" -> Txt("Withdraw operation failed: ")

\* C9: every failure of an operation reaches the caller as an Error whose
\* message starts with the name of the operation and contains the text of
\* the original failure
C9_ErrorsWrapped ==
  (frame.op \in Operations /\ pc = Settled /\ outcome.kind = "threw") =>
    /\ outcome.error.isError
    /\ Head(outcome.error.message) = operationPrefix
    /\ Contains(outcome.error.message, outcome.cause.message)

\* C10: the error of fund for an address mismatch is labelled as an address
\* mismatch and differs from the error fund throws for a rejected approval
C10_MismatchLabelled ==
  (frame.op = "fund" /\ pc = Settled /\ mismatchRaised) =>
    /\ includes(outcome.error.message, "Address mismatch: Executor (")
    /\ outcome.error # fundCatch(Error(<<Txt("Contract error: "), Txt("NotOwner")>>))

(***************************************************************************)
(* refreshState and the cached state                                       *)
(***************************************************************************)
\* a refreshState, called by the application or as the last step of an
\* operation, has ended
refreshEnded ==
  /\ pc = Settled /\ trace # <<>>
  /\ trace[Len(trace)].call = "state" /\ trace[Len(trace)].arg = "refreshState"
\* the ledger query of that refresh failed / returned a projection
queryFailed == refreshEnded /\ trace[Len(trace)].result = "rejected"
queryAnswered == refreshEnded /\ trace[Len(trace)].result = "resolved"
refreshSucceeded == queryAnswered /\ outcome.kind = "returned"

\* a field of the projection holds no value: absent (undefined) or null
noValue(projection, field) ==
  projection.k # "object" \/ projection[field].k \in { "absent", "null" }
\* a field of the projection holds a value that converts
converts(projection, field) ==
  projection.k = "object" /\ projection[field].k \in { "bigint", "number" }

\* ledger amount x 10^decimals, 6 for the mainnet USDC token and 18 otherwise
displayUnits(amount) ==
  BigMul(amount, BigE(1, IF strkAddress = MAINNET_USDC THEN 6 ELSE 18))

\* the cached state made of one projection alone
projectionOf(st, projection) ==
  [st EXCEPT
     !.currentBalance = IF noValue(projection, "balance") THEN BigZero
                        ELSE displayUnits(projection.balance.v),
     !.pendingBalance = IF noValue(projection, "pending") THEN BigZero
                        ELSE displayUnits(projection.pending.v),
     !.nonce = IF noValue(projection, "nonce") THEN 0 ELSE projection.nonce.v]

\* C11: when the ledger query of a refresh fails, the refresh fails with the
\* state-refresh error, which carries the text of the failure, and the
\* cached state is as it was before the call
C11_QueryFailure ==
  queryFailed =>
    /\ outcome.kind = "threw"
    /\ state = frame.entry
    /\ frame.op = "refresh" =>
         /\ outcome.error.isError
         /\ Head(outcome.error.message) = Txt("Failed to refresh account state: ")
         /\ Contains(outcome.error.message, messageOrString(outcome.cause))

C11_Witness ==
  /\ queryFailed /\ frame.op = "refresh" /\ outcome.kind = "threw"
  /\ state.currentBalance # BigZero /\ state.nonce # 0

\* C12: a refresh either replaces currentBalance, pendingBalance and nonce
\* together from the projection it received or leaves all three as they
\* were, and a refresh that ends in an error leaves them as they were
C12_NeverPartial ==
  queryAnswered =>
    /\ \/ state = frame.entry
       \/ /\ \A field \in { "balance", "pending", "nonce" } :
               noValue(frame.accountState, field) \/ converts(frame.accountState, field)
          /\ state = projectionOf(frame.entry, frame.accountState)
    /\ outcome.kind = "threw" => state = frame.entry

\* C13: after a successful refresh currentBalance is the ledger balance times
\* 10^tokenDecimals and pendingBalance the ledger pending times
\* 10^tokenDecimals (6 decimals for the mainnet USDC token, 18 otherwise),
\* and a null or undefined balance or pending is 0
C13_DisplayUnits ==
  refreshSucceeded =>
    /\ state.currentBalance = projectionOf(state, frame.accountState).currentBalance
    /\ state.pendingBalance = projectionOf(state, frame.accountState).pendingBalance

C13_Witness ==
  /\ refreshSucceeded /\ strkAddress = MAINNET_USDC
  /\ converts(frame.accountState, "balance")
  /\ frame.accountState.balance.v = Big(MaxLedgerAmount)
  /\ state.currentBalance = BigE(MaxLedgerAmount, 6)
  /\ frame.accountState.pending.k = "bigint" /\ state.pendingBalance = BigZero

\* C14: after a successful refresh a field the projection holds no value
\* for (absent or null) is 0 in the cached state, for balance, pending and
\* nonce alike, whatever earlier refreshes cached
C14_NoValueIsZero ==
  refreshSucceeded =>
    /\ noValue(frame.accountState, "balance") => state.currentBalance = BigZero
    /\ noValue(frame.accountState, "pending") => state.pendingBalance = BigZero
    /\ noValue(frame.accountState, "nonce") => state.nonce = 0

(***************************************************************************)
(* The key checks of the constructor                                       *)
(***************************************************************************)
\* a key written as 0x and hex digits
wellFormedKey(key) ==
  /\ startsWith0x(key) /\ Len(key) > 2
  /\ \A i \in 3..Len(key) : IsHexChar(key[i])

\* the scalar s of a well-formed key satisfies 1 <= s < N
validScalar(key) ==
  LET s == keyBigInt(key)
      N == starkCurveOrder
  IN  /\ s # <<0>>
      /\ \/ Len(s) < Len(N)
         \/ /\ Len(s) = Len(N)
            /\ \E i \in 1..Len(N) : s[i] < N[i] /\ \A j \in 1..(i - 1) : s[j] = N[j]

constructed == frame.op = "constructor" /\ pc = Settled

\* C17: the constructor's key validation accepts a well-formed key exactly
\* when its scalar s satisfies 1 <= s < N: such a key reaches the creation
\* of the TongoAccount, and with s = 0 or s >= N the constructor throws one
\* of its key errors and creates nothing
C17_KeyRange ==
  (constructed /\ wellFormedKey(frame.key)) =>
    IF validScalar(frame.key)
      THEN /\ trace # <<>> /\ trace[1].call = "TongoAccount"
           /\ outcome.kind = "threw" => outcome.error \notin { keyRequiredError, invalidKeyError }
      ELSE /\ outcome.kind = "threw"
           /\ outcome.error \in { keyRequiredError, invalidKeyError }
           /\ trace = <<>>

C17_Witness ==
  /\ constructed /\ outcome.kind = "returned"
  /\ wellFormedKey(frame.key) /\ validScalar(frame.key)
  /\ Len(keyBigInt(frame.key)) = Len(starkCurveOrder)

\* C18: the error the constructor throws for a key whose scalar is below 1
\* differs from the error it throws for every key whose scalar is N or more
C18_KeyErrorsDistinct ==
  (constructed /\ outcome.kind = "threw" /\ wellFormedKey(frame.key)
   /\ keyBigInt(frame.key) = <<0>>) =>
    \A k \in TongoPrivateKeys :
      (wellFormedKey(k) /\ keyBigInt(k) # <<0>> /\ ~validScalar(k)) =>
        outcome.error # constructorKeyError(k)

\* C19: the TongoAccount is created, and its public key read, only with a
\* well-formed key whose scalar s satisfies 1 <= s < N, the public key only
\* after the account was created; a missing, all-zero or out-of-range key
\* makes the constructor throw with no call made
C19_ValidationFirst ==
  /\ \A i \in Entries :
       trace[i].call \in { "TongoAccount", "publicKey" } =>
         /\ wellFormedKey(trace[i].arg.key) /\ validScalar(trace[i].arg.key)
         /\ trace[i].call = "publicKey" =>
              /\ i > 1
              /\ trace[i - 1].call = "TongoAccount" /\ trace[i - 1].result = "resolved"
  /\ (constructed /\ \/ frame.key \in { <<>>, ZeroKey }
                     \/ wellFormedKey(frame.key) /\ ~validScalar(frame.key)) =>
       outcome.kind = "threw" /\ trace = <<>>

C19_Witness ==
  /\ constructed /\ outcome.kind = "returned"
  /\ \E i \in Entries : trace[i].call = "publicKey"
  /\ frame.key = <<"0","x">> \o Rep("0", 63) \o <<"1">>

(***************************************************************************)
(* Who writes the cached state                                             *)
(***************************************************************************)
\* the awaits at which a refreshState is waiting for the account state
RefreshAwaits == { <<op, "refreshState">> : op \in Operations } \cup { <<"refresh", "state">> }
\* the call in progress (or the last call) has come to its refreshState
refreshCalled == \E i \in Entries : trace[i].call = "state" /\ trace[i].arg = "refreshState"

\* C15: the cached balances and nonce are zero once the constructor has
\* returned; a call that has not come to a refreshState (getState,
\* getPublicKey, getWalletBalance, the steps of fund, transfer, rollover and
\* withdraw before their refresh) has the cached state of its start, also
\* when it ends with an error; and the cached state changes only in the step
\* in which a refreshState receives the account state
C15_OnlyRefreshWrites ==
  /\ [](/\ (constructed /\ outcome.kind = "returned") =>
             /\ state.currentBalance = BigZero
             /\ state.pendingBalance = BigZero
             /\ state.nonce = 0
        /\ (frame.op \notin { "none", "constructor" } /\ ~refreshCalled) =>
             state = frame.entry)
  /\ [][state' # state => pc \in RefreshAwaits]_vars

C15_Witness ==
  /\ pc = Settled /\ frame.op \in Operations
  /\ outcome.kind = "threw" /\ ~refreshCalled
  /\ state.nonce # 0 /\ state.currentBalance # BigZero
  /\ state = frame.entry

\* the step is an assignment of the caller to the object it holds
callerWrote ==
  /\ snapshot # NoSnapshot /\ snapshot' # NoSnapshot
  /\ UNCHANGED <<pc, frame, trace, outcome>>

\* C16: an assignment the caller makes to an object returned by getState
\* leaves the cached state as it is, a getState returns the fields of the
\* cached state, and a refresh that changes the cached state leaves the
\* fields of an object returned earlier as they are
C16_SnapshotCopy ==
  [][/\ callerWrote => state' = state
     /\ (pc' = Settled /\ frame'.op = "getState") =>
          snapshot' # NoSnapshot /\ snapshotFields' = state /\ state' = state
     /\ (snapshot # NoSnapshot /\ state' # state /\ pc \in RefreshAwaits) =>
          snapshotFields' = snapshotFields]_vars

C16_Witness ==
  /\ snapshot # NoSnapshot /\ refreshEnded /\ state # frame.entry
  /\ snapshotFields.nonce = 7 /\ state.nonce # 7
  /\ snapshotFields.currentBalance = frame.entry.currentBalance

(***************************************************************************)
(* padAddress                                                              *)
(***************************************************************************)
\* C20: padAddress applied to its own result gives that result:
\* padAddress(padAddress(x)) = padAddress(x) for every string x
C20_Idempotent ==
  pc = <<"padAddress", "twice">> => frame.twice = frame.once

C20_Witness ==
  /\ pc = <<"padAddress", "twice">>
  /\ frame.address # <<>> /\ ~startsWith0x(frame.address)
  /\ Len(frame.address) < AddressHexLength
  /\ frame.once # frame.address /\ Len(frame.once) = AddressHexLength + 2
  /\ frame.twice = frame.once

\* padAddress has been applied to the drawn string
padded == frame.op = "padAddress" /\ pc # <<"padAddress", "address">>

\* C21: for every non-empty string padAddress returns exactly 66 characters:
\* 0x followed by 64 hex digits
C21_Always66 ==
  (padded /\ frame.address # <<>>) =>
    /\ outcome.kind = "returned"
    /\ Len(frame.once) = AddressHexLength + 2
    /\ startsWith0x(frame.once)
    /\ \A i \in 3..Len(frame.once) : IsHexChar(frame.once[i])

\* C22: padAddress applied to the empty string fails and returns no value
C22_EmptyFails ==
  (padded /\ frame.address = <<>>) => outcome.kind = "threw"

(***************************************************************************)
(* The checks of transfer and withdraw                                     *)
(***************************************************************************)
Shielded == { "transfer", "withdraw" }
\* the call has come past its balance check
pastBalanceCheck == frame.op \in Shielded /\ pc # <<frame.op, "state">>
\* neither the creation of the operation with its proof nor execute was called
nothingBuilt == \A i \in Entries : trace[i].call \notin Operations \cup { "execute" }
\* C23: in a transfer or withdraw called with an amount greater than the
\* cached currentBalance, neither the operation is created nor execute called
C23_CachedBalanceCheck ==
  (pastBalanceCheck /\ BigLess(frame.entry.currentBalance, frame.amountInTongo)) =>
    nothingBuilt

\* C24: transfer and withdraw called with an amount <= 0 fail before the
\* operation is created and before anything is submitted
C24_ShieldedAmountInvalid ==
  (pastBalanceCheck /\ ~BigLess(BigZero, frame.amountInTongo)) =>
    pc = Settled /\ outcome.kind = "threw" /\ nothingBuilt

\* C25: in a withdraw called with an amount above 2^31-1, and in a withdraw
\* called by an executor whose address is not the owner's,
\* tongoAccount.withdraw is not called and nothing is submitted
C25_WithdrawChecks ==
  (pastBalanceCheck /\ frame.op = "withdraw") =>
    /\ BigLess(MAX_32_BIT, frame.amountInTongo) => nothingBuilt
    /\ addressNumber(starknetAccount.address) # addressNumber(starknetAddress) =>
         nothingBuilt

(***************************************************************************)
(* Recipient keys                                                          *)
(***************************************************************************)
\* number of characters of the recipient key of the transfer after its 0x
keyLength == Len(frame.recipientPublicKey) - 2
\* the balance check of the call passed: state() resolved and the failure,
\* if any, is not one of that check
balanceCheckPassed ==
  /\ pastBalanceCheck /\ trace[1].result = "resolved"
  /\ outcome.kind = "threw" =>
       /\ ~includes(outcome.cause.message, "Insufficient balance")
       /\ outcome.cause.message # <<Txt("Cannot read properties of null (reading 'balance')")>>
\* the words that tell the three key errors apart
KeyErrorMarks == <<"Compressed point format detected", "Incomplete public key", "Invalid hex format">>

reEncoded == pc = <<"parsePublicKey", "publicKeyStr">>

\* C27 as stated: the hex form of the parsed point is the key itself
C27_SameString ==
  reEncoded => frame.publicKeyStr = frame.pubKeyString

\* C27: a key of 0x and 128 hex digits parses to (x, y), x the value of the
\* first 64 digits and y the value of the last 64, and the hex form of
\* (x, y) is the key with its digits in lower case
C27_RoundTrip ==
  /\ (frame.op = "parsePublicKey" /\ pc # <<"parsePublicKey", "pubKeyString">>
      /\ \A i \in 3..Len(frame.pubKeyString) : IsHexChar(frame.pubKeyString[i])) =>
       /\ outcome.kind = "returned"
       /\ hexDigits(frame.point.x) = hexDigits(SubSeq(frame.pubKeyString, 3, 66))
       /\ hexDigits(frame.point.y) = hexDigits(SubSeq(frame.pubKeyString, 67, 130))
  /\ reEncoded =>
       /\ Len(frame.publicKeyStr) = Len(frame.pubKeyString)
       /\ \A i \in 1..Len(frame.publicKeyStr) :
            frame.publicKeyStr[i] = LowerChar(frame.pubKeyString[i])

C27_Witness ==
  /\ reEncoded
  /\ frame.pubKeyString[3] = "0" /\ frame.pubKeyString[130] = "B"
  /\ frame.publicKeyStr[130] = "b"
  /\ frame.point.y # <<"0">>

(***************************************************************************)
(* The patch of the approve call, and what follows execute                 *)
(***************************************************************************)
\* fund has patched the approve call once and awaits the wallet balance
patchedOnce == pc = <<"fund", "getWalletBalance">>

\* C28: the patch applied to an approve call it has already patched leaves
\* that call as it is, for every first slot the SDK may produce that the
\* patch converts: the second patch of fund changes nothing
C28_PatchIdempotent ==
  patchedOnce => patchApprove(frame.approveCall) = frame.approveCall

C28_Witness ==
  /\ patchedOnce
  /\ frame.approveCall # frame.fundOperation.approve
  /\ patchApprove(frame.approveCall) = frame.approveCall

\* C29: when the refreshState that follows execute asks the ledger for the
\* account state, the submitted transaction has been accepted
C29_RefreshAfterAcceptance ==
  (frame.op \in Operations /\ pc = <<frame.op, "refreshState">>) =>
    frame.txStatus # "RECEIVED"

\* C30: a fund whose approve call has no calldata, or an empty one, so that
\* its spender cannot be compared with the contract address, submits nothing
C30_UnverifiedSpenderFails ==
  (frame.op = "fund" /\ "fundOperation" \in DOMAIN frame
   /\ frame.fundOperation.approve # Undefined
   /\ \/ ~isArray(frame.fundOperation.approve.calldata)
      \/ Len(frame.fundOperation.approve.calldata.v) = 0) =>
    \A i \in Entries : trace[i].call # "execute"

\* the limit error of fund has been thrown
limitErrorThrown ==
  /\ frame.op = "fund" /\ pc = Settled /\ outcome.kind = "threw"
  /\ includes(outcome.error.message, " exceeds maximum 32-bit limit of ")

\* C31 as stated: when the 32-bit check of fund fails, no collaborator has
\* been contacted, the exchange-rate query erc20ToTongo included
C31_LimitBeforeAnyCall == limitErrorThrown => trace = <<>>

\* C31: when the 32-bit check of fund fails, the only collaborator contacted
\* is the exchange-rate query erc20ToTongo, once, and the cached state is the
\* one fund started with: once the converted amount is known to be above the
\* limit nothing else is ever called
C31_LimitBeforeOtherCalls ==
  /\ limitErrorThrown =>
       /\ trace = <<[call |-> "erc20ToTongo",
                     arg |-> normalizedTokenAmount(frame.amountInToken),
                     result |-> "resolved"]>>
       /\ state = frame.entry
  /\ (frame.op = "fund" /\ "tongoAmount" \in DOMAIN frame
      /\ BigLess(MAX_32_BIT, frame.tongoAmount)) =>
       \A i \in Entries : trace[i].call = "erc20ToTongo"

C31_Witness ==
  /\ limitErrorThrown
  /\ frame.tongoAmount = BigAdd(MAX_32_BIT, Big(1))
  /\ Len(trace) = 1

\* the approve call as tongoAccount.fund produced it, and as execute got it
approveMade == frame.fundOperation.approve
approveSent(i) == trace[i].arg.calls[1]

\* the first slot of the calldata decodes to the contract address
decodesToContract(slot) == slotValue(slot) = BigIntOfString(tongoContractAddress)

\* C32: the approve call submitted by fund is the one tongoAccount.fund
\* produced when its first calldata slot decodes to the contract address (or
\* it has no first slot); otherwise it differs from it in calldata[0] only,
\* which is the decimal string of the contract address
C32_PatchFrame ==
  frame.op = "fund" =>
    \A i \in entriesOf("execute") :
      IF isArray(approveMade.calldata) /\ Len(approveMade.calldata.v) >= 1
         /\ ~decodesToContract(firstSlot(approveMade.calldata))
        THEN /\ approveSent(i).contractAddress = approveMade.contractAddress
             /\ approveSent(i).entrypoint = approveMade.entrypoint
             /\ approveSent(i).calldata.k = approveMade.calldata.k
             /\ Len(approveSent(i).calldata.v) = Len(approveMade.calldata.v)
             /\ \A k \in 2..Len(approveMade.calldata.v) :
                  approveSent(i).calldata.v[k] = approveMade.calldata.v[k]
             /\ approveSent(i).calldata.v[1] =
                  StringSlot(toString10(BigIntOfString(tongoContractAddress)))
        ELSE approveSent(i) = approveMade

C32_Witness ==
  /\ frame.op = "fund"
  /\ \E i \in entriesOf("execute") :
       /\ approveSent(i) # approveMade
       /\ Len(approveSent(i).calldata.v) = 3
       /\ approveSent(i).calldata.v[2] = approveMade.calldata.v[2]

\* fund threw the error of its wallet-balance check: the read succeeded and
\* the balance is below the amount it was compared with
shortfallThrown ==
  /\ frame.op = "fund" /\ pc = Settled /\ outcome.kind = "threw"
  /\ Len(outcome.cause.message) = 5
  /\ outcome.cause.message[1] = Txt("Insufficient balance")
  /\ outcome.cause.message[2] = Txt(": ")

\* C35: the wallet-balance check of fund rejects the call only when the
\* wallet holds less than the token amount fund converts and funds (on the
\* mainnet token an amount >= 10^15 divided by 10^12)
C35_PreCheckFundedAmount ==
  shortfallThrown =>
    BigLess(outcome.cause.message[3].val, normalizedTokenAmount(frame.amountInToken))

\* the wallet-balance read of fund failed and fund ended there; the fund
\* call of an operation that has no toCalldata method cannot fail to build
readFailureAborted ==
  /\ frame.op = "fund" /\ pc = Settled /\ outcome.kind = "threw"
  /\ "fundOperation" \in DOMAIN frame /\ frame.fundOperation.shape # "method"
  /\ trace[Len(trace)].call = "callContract"
  /\ trace[Len(trace)].result = "rejected"

\* C36: a wallet-balance read that fails never aborts fund
C36_FailedReadIgnored == ~readFailureAborted

\* the ledger snapshots the overlapping refreshes have received, in the order
\* their queries returned
snapshotsReturned ==
  { k \in 1..Len(frame.returned) : frame.returned[k].settled.k = "value" }

\* every field of the projection is a value that converts, or no value
projects(projection) ==
  \A field \in { "balance", "pending", "nonce" } :
    noValue(projection, field) \/ converts(projection, field)

\* the three cached fields are those of the service just constructed or the
\* projection of one of the snapshots received
singleSnapshot(st) ==
  \/ st = frame.entry
  \/ \E k \in snapshotsReturned :
       /\ projects(frame.returned[k].settled.v)
       /\ st = projectionOf(frame.entry, frame.returned[k].settled.v)

\* every refreshState call made has ended
overlapEnded ==
  /\ pc = <<"refresh", "overlap">> /\ Len(trace) = MaxOverlap
  /\ \A i \in Entries : trace[i].result # "pending"

\* C33: with two refreshState calls in flight, the cached state, and every
\* copy getState returned, is the projection of one ledger snapshot, and
\* once both calls have ended it is the projection of the snapshot whose
\* query returned last
C33_SingleSnapshot ==
  pc = <<"refresh", "overlap">> =>
    /\ singleSnapshot(state)
    /\ snapshot # NoSnapshot => singleSnapshot(snapshot.fields)
    /\ (overlapEnded /\ snapshotsReturned # {}) =>
         LET last == CHOOSE k \in snapshotsReturned : \A j \in snapshotsReturned : j <= k
         IN  projects(frame.returned[last].settled.v) =>
               state = projectionOf(frame.entry, frame.returned[last].settled.v)

(***************************************************************************)
(* The key manager                                                         *)
(***************************************************************************)
\* the finished calls of the key manager that returned a key
keysReturned ==
  { i \in Entries : trace[i].call \in { "generateTongoPrivateKey", "getOrCreateTongoKey" } }

\* C37: every key generateTongoPrivateKey or getOrCreateTongoKey returned
\* passes the key checks of the constructor of the client
C37_ReturnedKeysValid ==
  \A i \in keysReturned : constructorKeyError(trace[i].result) = Null

\* no saveTongoKey was called after call i and before call j
noSaveBetween(i, j) ==
  \A m \in (i + 1)..(j - 1) : trace[m].call # "saveTongoKey"

\* a stored value that is no key: missing, blank or the placeholder
noKeyStored(item) ==
  item = Null \/ \A c \in 1..Len(item.s) : item.s[c] = " " \/ item.s = KeyPlaceholder

\* C38: in the browser, once getOrCreateTongoKey has returned a key,
\* hasTongoKey is true and getOrCreateTongoKey returns that key until
\* saveTongoKey is called; after saveTongoKey(k), k not blank and not the
\* placeholder, getOrCreateTongoKey returns k; a key is generated only when
\* the stored value is missing, blank or the placeholder
C38_StorageStable ==
  (pc = Idle /\ state # Null /\ "window" \in DOMAIN state /\ state.window) =>
    \A i \in Entries :
      /\ trace[i].call = "getOrCreateTongoKey" =>
           /\ trace[i].generated => noKeyStored(trace[i].arg)
           /\ ~trace[i].generated => trace[i].result = trace[i].arg.s
           /\ \A j \in (i + 1)..Len(trace) :
                noSaveBetween(i, j) =>
                  /\ trace[j].call = "getOrCreateTongoKey" =>
                       trace[j].result = trace[i].result /\ ~trace[j].generated
                  /\ trace[j].call = "hasTongoKey" => trace[j].result = TRUE
           /\ noSaveBetween(i, Len(trace) + 1) =>
                state.tongo_private_key = Item(trace[i].result)
      /\ (trace[i].call = "saveTongoKey" /\ ~noKeyStored(trace[i].arg)) =>
           \A j \in (i + 1)..Len(trace) :
             (noSaveBetween(i, j) /\ trace[j].call = "getOrCreateTongoKey") =>
               trace[j].result = trace[i].arg.s /\ ~trace[j].generated

C38_Witness ==
  /\ pc = Idle /\ "window" \in DOMAIN state /\ state.window /\ Len(trace) = 3
  /\ trace[1].call = "getOrCreateTongoKey" /\ trace[1].generated
  /\ trace[1].arg = Item(KeyPlaceholder)
  /\ trace[2].call = "hasTongoKey" /\ trace[2].result = TRUE
  /\ trace[3].call = "getOrCreateTongoKey" /\ trace[3].result = trace[1].result

(***************************************************************************)
(* The proof API server                                                    *)
(***************************************************************************)
\* the requests that were answered with calldata
proved ==
  { i \in 1..Len(trace) : trace[i].at = "done" /\ trace[i].response.success }

\* C34: the calldata of a response is made from the proof of the inputs of
\* its own request, whose commitment is the one in the same response
C34_OwnProof ==
  pc = <<"server", "fetch">> =>
    \A i \in proved :
      LET own == proverToml(trace[i].body, poseidonCommitment(trace[i].body))
      IN  /\ trace[i].response.commitment = poseidonCommitment(trace[i].body)
          /\ trace[i].response.calldata.proof = [k |-> "proof", of |-> own]
          /\ trace[i].response.calldata.proof.of.donation_commitment
               = trace[i].response.commitment

(***************************************************************************)
(* BadgeService.generateProof                                              *)
(***************************************************************************)
\* the stages the status callback has reported
stagesReported == { trace[i].arg : i \in entriesOf("onStatusUpdate") }

\* C39: the status callback reports the stage complete only in a call that
\* returns a proof made from a response with calldata and commitment; a call
\* that throws has not reported it, and a call below the threshold of its
\* tier throws before it reports a status or contacts the proof backend
C39_CompleteOnlyWithProof ==
  frame.op = "generateProof" =>
    /\ "complete" \in stagesReported =>
         /\ outcome.kind = "returned"
         /\ frame.result.calldata # Undefined
         /\ frame.result.commitment # Undefined
         /\ outcome.tx.fullProofWithHints = frame.result.calldata
    /\ outcome.kind = "threw" => "complete" \notin stagesReported
    /\ frame.input.donationAmountCents < getTierThreshold(frame.input.targetTier) =>
         pc = Settled /\ outcome.kind = "threw" /\ trace = <<>>

====
